---- MODULE Spec2Model ----
(***************************************************************************)
(* Model of jira-ops (jira-status.go and its earlier variants): a          *)
(* command-line tool that lists, transitions, links, re-versions, rewrites *)
(* and mirrors the issues of one Jira project.                             *)
(*                                                                         *)
(* Strings are sequences of one-character strings, so the text helpers     *)
(* are computed character by character as the Go code computes them.       *)
(***************************************************************************)
EXTENDS Integers, Sequences, FiniteSets, TLC

VARIABLES
    pc,       \* position of the running procedure
    opts,     \* the Options struct filled by flag.Parse
    args,     \* flag.Args(): the issue numbers given after the flags
    exit,     \* how the process ended: "running", "ok" (return) or "fatal" (log.Fatalf)
    ran,      \* the action procedures main has started, in order
    calls,    \* every remote API call and filesystem step issued so far, in order
              \* (and, where the tool is run repeatedly, the restarts and edits between)
    session,  \* TRUE once AcquireSessionCookie has succeeded
    jira,     \* the remote tracker: links, statuses, ...
    fs,       \* the local directory tree under the mirror base
    loc,      \* local variables of the running procedure
    body,     \* makeAllImagesThumbnails: the argument
    newBody,  \* makeAllImagesThumbnails: the returned string
    thumbErr  \* makeAllImagesThumbnails: the returned error ("nil" or a message)

progVars == <<opts, args, exit, ran, calls, session, jira, fs, loc>>
thumbVars == <<body, newBody, thumbErr>>
vars == <<pc, progVars, thumbVars>>

(***************************************************************************)
(* Bounds of the model.                                                    *)
(***************************************************************************)
MaxLen == 5      \* longest text given to makeAllImagesThumbnails
MaxLinks == 2    \* most issue links on the tracker before linkEpics runs
MaxArgs == 2     \* most issue numbers on the command line
MaxResults == 2  \* most issues one search returns
MaxTransitions == 2  \* most transitions available to one issue
MaxScans == 2    \* most upkeep scans of one daemon run that are followed

(***************************************************************************)
(* Text helpers.                                                           *)
(***************************************************************************)
Chars == {"!", "|", "a", "b", "\n"}

Strings == UNION {[1..n -> Chars] : n \in 0..MaxLen}

\* the literal "|thumbnail!" of the format string "!%s|thumbnail!"
ThumbnailSuffix == <<"|", "t", "h", "u", "m", "b", "n", "a", "i", "l", "!">>

\* strings.Replace(s, old, "", -1) for a one-character old
RECURSIVE StringsRemove(_, _)
StringsRemove(s, old) ==
    IF s = <<>> THEN <<>>
    ELSE IF Head(s) = old THEN StringsRemove(Tail(s), old)
    ELSE <<Head(s)>> \o StringsRemove(Tail(s), old)

\* strings.Split(s, sep) for a one-character sep: the pieces between the seps
RECURSIVE StringsSplit(_, _)
StringsSplit(s, sep) ==
    IF \A k \in 1..Len(s) : s[k] # sep THEN <<s>>
    ELSE LET k == CHOOSE k \in 1..Len(s) :
                      s[k] = sep /\ \A j \in 1..(k - 1) : s[j] # sep
         IN <<SubSeq(s, 1, k - 1)>> \o StringsSplit(SubSeq(s, k + 1, Len(s)), sep)

(***************************************************************************)
(* imagesRegexp = "![^!\n]+!" and makeAllImagesThumbnails.                 *)
(***************************************************************************)
\* the character class [^!\n]
imagesClass(c) == c \notin {"!", "\n"}

\* first index >= k of s that is not in the class (Len(s)+1 when none):
\* where the greedy [^!\n]+ stops
RECURSIVE imagesClassEnd(_, _)
imagesClassEnd(s, k) ==
    IF k <= Len(s) /\ imagesClass(s[k]) THEN imagesClassEnd(s, k + 1) ELSE k

\* index of the last character of the match of imagesRegexp that starts at
\* index i of s, 0 when no match starts there
imagesRegexp(s, i) ==
    IF s[i] # "!" THEN 0
    ELSE LET k == imagesClassEnd(s, i + 1)
         IN IF k > i + 1 /\ k <= Len(s) /\ s[k] = "!" THEN k ELSE 0

\* the closure with the "!" delimiters left in the name
thumbnailReplKeepBangs(match) ==
    LET pipes == StringsSplit(match, "|")
    IN IF Len(pipes) = 2 THEN match
       ELSE <<"!">> \o match \o ThumbnailSuffix

\* the replacement closure of makeAllImagesThumbnails
thumbnailRepl(match) ==
    LET pipes == StringsSplit(match, "|")
    IN IF Len(pipes) = 2 THEN match
       ELSE LET nameOnly == StringsRemove(match, "!")
            IN <<"!">> \o nameOnly \o ThumbnailSuffix

\* regexp.ReplaceAllStringFunc: leftmost non-overlapping matches, scanning
\* from index i; unmatched text is copied
RECURSIVE ReplaceAllStringFunc(_, _)
ReplaceAllStringFunc(s, i) ==
    IF i > Len(s) THEN <<>>
    ELSE LET e == imagesRegexp(s, i)
         IN IF e > 0
            THEN thumbnailRepl(SubSeq(s, i, e)) \o ReplaceAllStringFunc(s, e + 1)
            ELSE <<s[i]>> \o ReplaceAllStringFunc(s, i + 1)

makeAllImagesThumbnails(s) == ReplaceAllStringFunc(s, 1)

(***************************************************************************)
(* The earlier build (part_004): imagesRegexp = "!.+!", where "." is any   *)
(* character but newline and ".+" takes as much as it can.                 *)
(***************************************************************************)
\* index of the newline that ends the line of index i (Len(s)+1 when none)
RECURSIVE lineEnd(_, _)
lineEnd(s, i) ==
    IF i > Len(s) \/ s[i] = "\n" THEN i ELSE lineEnd(s, i + 1)

\* index of the last character of the match that starts at index i, 0 when
\* no match starts there: the last "!" of the line, at least two further on
imagesRegexp004(s, i) ==
    IF s[i] # "!" THEN 0
    ELSE LET ends == {k \in (i + 2)..(lineEnd(s, i + 1) - 1) : s[k] = "!"}
         IN IF ends = {} THEN 0 ELSE CHOOSE k \in ends : \A j \in ends : j <= k

RECURSIVE ReplaceAllStringFunc004(_, _)
ReplaceAllStringFunc004(s, i) ==
    IF i > Len(s) THEN <<>>
    ELSE LET e == imagesRegexp004(s, i)
         IN IF e > 0
            THEN thumbnailRepl(SubSeq(s, i, e)) \o ReplaceAllStringFunc004(s, e + 1)
            ELSE <<s[i]>> \o ReplaceAllStringFunc004(s, i + 1)

makeAllImagesThumbnails004(s) == ReplaceAllStringFunc004(s, 1)

\* makeAllImagesThumbnails of the build that runs
thumbnailsOf(build, s) ==
    IF build = "part_004" THEN makeAllImagesThumbnails004(s)
    ELSE makeAllImagesThumbnails(s)

(***************************************************************************)
(* The text helper applied to any input string.                            *)
(***************************************************************************)
\* values of the variables a specification does not use
NoOpts == [help |-> FALSE]
NoJira ==
    [issues |-> {}, links |-> {}, nextLinkId |-> 1, status |-> <<>>,
     summary |-> <<>>, description |-> <<>>, comments |-> <<>>, attachments |-> <<>>,
     versions |-> <<>>, fixVersions |-> <<>>]
NoFs == [base |-> FALSE, dirs |-> {}, files |-> {}]

\* the local variables of the procedures, before any of them has run
Locals ==
    [action |-> "none", err |-> "nil", build |-> "jira-status.go",
     \* linkEpics
     desiredKey |-> 0, argIdx |-> 1, issueLinks |-> <<>>, linkIdx |-> 1, linked |-> FALSE,
     \* displaySearch, changeStatus, findIssue, changeIssueStatus
     search |-> "none", desired |-> "none", issues |-> <<>>, idx |-> 1, issue |-> 0,
     transitions |-> <<>>, result |-> "none",
     \* upkeep
     snapshot |-> <<>>, comments |-> <<>>, cidx |-> 1,
     \* reversion
     version |-> [id |-> 0], fixVersions |-> {},
     \* mirror
     files |-> <<>>, directoryName |-> <<>>, urls |-> <<>>, uidx |-> 1,
     \* makeUniqueName
     unique |-> <<>>]

IdleProgram ==
    /\ opts = NoOpts
    /\ args = <<>>
    /\ exit = "running"
    /\ ran = <<>>
    /\ calls = <<>>
    /\ session = FALSE
    /\ jira = NoJira
    /\ fs = NoFs
    /\ loc = Locals

IdleThumb ==
    /\ body = <<>>
    /\ newBody = <<>>
    /\ thumbErr = "none"

InitThumb ==
    /\ pc = "thumb_call"
    /\ IdleProgram
    /\ body \in Strings
    /\ newBody = <<>>
    /\ thumbErr = "none"

CallThumbnails ==
    /\ pc = "thumb_call"
    /\ newBody' = makeAllImagesThumbnails(body)
    /\ thumbErr' = "nil"
    /\ pc' = "thumb_done"
    /\ UNCHANGED <<body, progVars>>

NextThumb == CallThumbnails

SpecThumb == InitThumb /\ [][NextThumb]_vars

(***************************************************************************)
(* The text helper of either build applied to any input string: the build  *)
(* of jira-status.go or the earlier one of part_004.                       *)
(***************************************************************************)
InitThumbBuilds ==
    /\ pc = "thumb_call"
    /\ opts = NoOpts
    /\ args = <<>>
    /\ exit = "running"
    /\ ran = <<>>
    /\ calls = <<>>
    /\ session = FALSE
    /\ jira = NoJira
    /\ fs = NoFs
    /\ \E b \in {"jira-status.go", "part_004"} : loc = [Locals EXCEPT !.build = b]
    /\ body \in Strings
    /\ newBody = <<>>
    /\ thumbErr = "none"

CallThumbnailsOfBuild ==
    /\ pc = "thumb_call"
    /\ newBody' = thumbnailsOf(loc.build, body)
    /\ thumbErr' = "nil"
    /\ pc' = "thumb_done"
    /\ UNCHANGED <<body, progVars>>

SpecThumbBuilds == InitThumbBuilds /\ [][CallThumbnailsOfBuild]_vars

(***************************************************************************)
(* Claims about makeAllImagesThumbnails (C1 and C2 under SpecThumb, C3      *)
(* under SpecThumbBuilds).                                                 *)
(* Image markup is a "!", one or more characters other than "!" and        *)
(* newline, and a "!".  The formulas describe the leftmost markup of the   *)
(* input and the rest of the output after it; every suffix of an input is  *)
(* itself an input of the specification, so they cover every markup.       *)
(***************************************************************************)
IsMarkup(m) ==
    /\ Len(m) >= 3
    /\ m[1] = "!"
    /\ m[Len(m)] = "!"
    /\ \A k \in 2..(Len(m) - 1) : m[k] \notin {"!", "\n"}

HasMarkup(s) == \E i \in 1..Len(s), e \in 1..Len(s) : IsMarkup(SubSeq(s, i, e))

\* s[i..e] is the leftmost markup of s
FirstMarkup(s, i, e) ==
    /\ IsMarkup(SubSeq(s, i, e))
    /\ ~HasMarkup(SubSeq(s, 1, i - 1) \o <<s[i]>>)
    /\ \A i2 \in 1..(i - 1), e2 \in i..Len(s) : ~IsMarkup(SubSeq(s, i2, e2))

NumPipes(m) == Cardinality({k \in 1..Len(m) : m[k] = "|"})

\* C1: every image markup !name! without a pipe is rewritten to
\* !name|thumbnail! (the text before it is kept and the text after it is
\* processed the same way), and the function returns no error.
C1_NoPipeGainsThumbnail ==
    pc = "thumb_done" =>
        /\ thumbErr = "nil"
        /\ \A i \in 1..Len(body), e \in 1..Len(body) :
              (FirstMarkup(body, i, e) /\ NumPipes(SubSeq(body, i, e)) = 0) =>
                  newBody = SubSeq(body, 1, i - 1)
                            \o <<"!">> \o SubSeq(body, i + 1, e - 1) \o ThumbnailSuffix
                            \o makeAllImagesThumbnails(SubSeq(body, e + 1, Len(body)))

C1_Witness ==
    /\ pc = "thumb_done"
    /\ \E i \in 2..Len(body), e \in 1..(Len(body) - 1) :
          /\ FirstMarkup(body, i, e)
          /\ NumPipes(SubSeq(body, i, e)) = 0
    /\ newBody # body

\* C2: image markup that contains one or more pipes is left unchanged.
C2_AnyPipeUnchanged ==
    pc = "thumb_done" =>
        \A i \in 1..Len(body), e \in 1..Len(body) :
            (FirstMarkup(body, i, e) /\ NumPipes(SubSeq(body, i, e)) >= 1) =>
                newBody = SubSeq(body, 1, e)
                          \o makeAllImagesThumbnails(SubSeq(body, e + 1, Len(body)))

\* out is in with nothing but its image markup changed: in without markup
\* is out; otherwise the text before the leftmost markup of in begins out,
\* one markup follows it, and the rest of out is the rest of in after its
\* markup, changed in the same way
RECURSIVE OnlyMarkupChanged(_, _)
OnlyMarkupChanged(in, out) ==
    IF ~HasMarkup(in) THEN out = in
    ELSE \E i \in 1..Len(in), e \in 1..Len(in) :
           /\ FirstMarkup(in, i, e)
           /\ Len(out) >= i + 2
           /\ SubSeq(out, 1, i - 1) = SubSeq(in, 1, i - 1)
           /\ \E n \in (i + 2)..Len(out) :
                /\ IsMarkup(SubSeq(out, i, n))
                /\ OnlyMarkupChanged(SubSeq(in, e + 1, Len(in)),
                                     SubSeq(out, n + 1, Len(out)))

\* C3: text that is not image markup is untouched, in either build: an input
\* without markup is returned as it is, and every part of the input that is
\* not image markup stands unchanged in the output, in the same place among
\* the other parts.
C3_NonImageTextUntouched ==
    pc = "thumb_done" => OnlyMarkupChanged(body, newBody)

\* the same of the build of jira-status.go alone
NonImageTextUntouchedByLaterBuild ==
    (pc = "thumb_done" /\ loc.build = "jira-status.go") =>
        OnlyMarkupChanged(body, newBody)

(***************************************************************************)
(* The tracker's issues.  A key FK-n is modelled by its number n (the      *)
(* project prefix is the default, "FK").                                   *)
(***************************************************************************)
Epics == {1, 2}
Stories == {3, 4}
Issues == Epics \cup Stories

\* issue.Fields.Type.Name
IssueTypeName(n) == IF n \in Epics THEN "Epic" ELSE "Story"

\* sequences over S of length at most n
SeqsUpTo(S, n) == UNION {[1..k -> S] : k \in 0..n}

\* the process has ended through main's error handling: log.Fatalf when the
\* action returned an error, a plain return otherwise
MainReturn ==
    /\ pc = "return"
    /\ exit' = IF loc.err # "nil" THEN "fatal" ELSE "ok"
    /\ pc' = "exit"
    /\ UNCHANGED <<opts, args, ran, calls, session, jira, fs, loc, thumbVars>>

(***************************************************************************)
(* strconv.Atoi on a sequence of characters.                               *)
(***************************************************************************)
DigitValue(c) ==
    CASE c = "0" -> 0 [] c = "1" -> 1 [] c = "2" -> 2 [] c = "3" -> 3
      [] c = "4" -> 4 [] c = "5" -> 5 [] c = "6" -> 6 [] c = "7" -> 7
      [] c = "8" -> 8 [] c = "9" -> 9 [] OTHER -> -1

RECURSIVE DigitsValue(_, _)
DigitsValue(s, acc) ==
    IF s = <<>> THEN acc ELSE DigitsValue(Tail(s), acc * 10 + DigitValue(Head(s)))

Atoi(s) ==
    LET signed == s # <<>> /\ Head(s) \in {"+", "-"}
        digits == IF signed THEN Tail(s) ELSE s
    IN IF digits = <<>> \/ \E k \in 1..Len(digits) : DigitValue(digits[k]) < 0
       THEN [ok |-> FALSE, n |-> 0]
       ELSE [ok |-> TRUE,
             n |-> IF signed /\ Head(s) = "-" THEN 0 - DigitsValue(digits, 0)
                   ELSE DigitsValue(digits, 0)]

(***************************************************************************)
(* Issue links.  A link of the tracker is [id, inward, outward]; an issue  *)
(* sees it with the other issue as InwardIssue or OutwardIssue and the     *)
(* other field nil (0).                                                    *)
(***************************************************************************)
Nil == 0

LinkView(l, k) ==
    [id |-> l.id,
     inward |-> IF l.outward = k THEN l.inward ELSE Nil,
     outward |-> IF l.inward = k THEN l.outward ELSE Nil]

RECURSIVE SortById(_)
SortById(S) ==
    IF S = {} THEN <<>>
    ELSE LET m == CHOOSE x \in S : \A y \in S : x.id <= y.id
         IN <<m>> \o SortById(S \ {m})

\* issue.Fields.IssueLinks as Issue.Get returns it for issue k
IssueLinksOf(links, k) ==
    SortById({LinkView(l, k) : l \in {x \in links : k \in {x.inward, x.outward}}})

\* the test "link.XIssue.Key == desiredKey"
isDesired(key, desiredKey) == key = desiredKey

\* the removal test without the type check
isConflictingEpicAnyType(key, desiredKey) == key # desiredKey

\* the else branch: the other issue is an Epic that is not the desired one
isConflictingEpic(key, desiredKey) ==
    key # desiredKey /\ IssueTypeName(key) = "Epic"

\* the link with the two issues swapped
newLinkSwapped(desiredKey, issueKey) ==
    [type |-> "Relates", inward |-> issueKey, outward |-> desiredKey]

\* newLink := &jira.IssueLink{...}
newLink(desiredKey, issueKey) ==
    [type |-> "Relates", inward |-> desiredKey, outward |-> issueKey]

\* the tracker accepts a new link unless it joins an issue to itself or names
\* an issue that does not exist
AddLinkAccepted(l) ==
    l.inward # l.outward /\ l.inward \in Issues /\ l.outward \in Issues

(***************************************************************************)
(* The Options struct with the defaults flag.Parse leaves; string flags    *)
(* are sequences of characters.                                            *)
(***************************************************************************)
DefaultOpts ==
    [project |-> <<"F", "K">>, version |-> <<>>, search |-> <<>>, pull |-> <<>>,
     epic |-> <<>>, upkeep |-> FALSE, mirror |-> FALSE, pending |-> FALSE,
     progress |-> FALSE, deployedPortal |-> FALSE, deployedApp |-> FALSE,
     help |-> FALSE, daemon |-> FALSE]

(***************************************************************************)
(* findEpic and linkEpics.                                                 *)
(***************************************************************************)
\* what the epic search can answer: an error, or some unresolved epics in
\* the tracker's order
EpicSearchResults ==
    {[ok |-> FALSE, epics |-> <<>>]}
    \cup {[ok |-> TRUE, epics |-> r] :
            r \in {q \in SeqsUpTo(Epics, Cardinality(Epics)) :
                     \A i, j \in 1..Len(q) : i # j => q[i] # q[j]}}

\* the choice of the last epic of the answer
lastEpic(epics) == epics[Len(epics)]

\* "for _, e := range epics { ... return e.Key, nil }": the first epic
firstEpic(epics) == epics[1]

\* desiredKey, err := findEpic(jc, options)
linkEpics_findEpic ==
    /\ pc = "linkEpics"
    /\ LET number == Atoi(opts.epic)
       IN IF number.ok
          THEN /\ loc' = [loc EXCEPT !.desiredKey = number.n]
               /\ pc' = "link_getlist"
               /\ UNCHANGED <<calls, exit>>
          ELSE \E r \in EpicSearchResults :
                 /\ calls' = Append(calls, [op |-> "Search", jql |-> "epic", ok |-> r.ok,
                                            epics |-> r.epics])
                 /\ IF ~r.ok
                    THEN \* log.Fatalf inside findEpic
                         /\ exit' = "fatal"
                         /\ pc' = "exit"
                         /\ UNCHANGED loc
                    ELSE IF r.epics = <<>>
                    THEN /\ loc' = [loc EXCEPT !.err = "unable to find Epic"]
                         /\ pc' = "return"
                         /\ UNCHANGED exit
                    ELSE /\ loc' = [loc EXCEPT !.desiredKey = firstEpic(r.epics)]
                         /\ pc' = "link_getlist"
                         /\ UNCHANGED exit
    /\ UNCHANGED <<opts, args, ran, session, jira, fs, thumbVars>>

\* types, _, _ := jc.IssueLinkType.GetList(): the error is dropped
linkEpics_GetList ==
    /\ pc = "link_getlist"
    /\ \E ok \in BOOLEAN :
         calls' = Append(calls, [op |-> "GetList", ok |-> ok])
    /\ pc' = "link_loop"
    /\ UNCHANGED <<opts, args, exit, ran, session, jira, fs, loc, thumbVars>>

\* the head of "for _, issueNumber := range flag.Args()" and Issue.Get
linkEpics_Get ==
    /\ pc = "link_loop"
    /\ IF loc.argIdx > Len(args)
       THEN /\ pc' = "return"
            /\ UNCHANGED <<calls, loc>>
       ELSE \E ok \in BOOLEAN :
              LET issueKey == args[loc.argIdx]
                  issueLinks == IF ok THEN IssueLinksOf(jira.links, issueKey) ELSE <<>>
              IN /\ calls' = Append(calls, [op |-> "Get", key |-> issueKey, ok |-> ok,
                                            arg |-> loc.argIdx, links |-> issueLinks])
                 /\ IF ok
                    THEN /\ loc' = [loc EXCEPT !.issueLinks = issueLinks,
                                               !.linkIdx = 1, !.linked = FALSE]
                         /\ pc' = IF issueLinks = <<>> THEN "link_add" ELSE "link_inward"
                    ELSE /\ loc' = [loc EXCEPT !.err = "error getting issue"]
                         /\ pc' = "return"
    /\ UNCHANGED <<opts, args, exit, ran, session, jira, fs, thumbVars>>

\* one of the two "if link.XIssue != nil" blocks, for the other issue `other`
\* of the link under the cursor; `after` is where the scan goes on, `idx` the
\* cursor then
linkEpics_branch(other, after, idx) ==
    LET link == loc.issueLinks[loc.linkIdx]
    IN IF other = Nil
       THEN /\ pc' = after
            /\ loc' = [loc EXCEPT !.linkIdx = idx]
            /\ UNCHANGED <<calls, jira>>
       ELSE IF isDesired(other, loc.desiredKey)
       THEN /\ pc' = after
            /\ loc' = [loc EXCEPT !.linked = TRUE, !.linkIdx = idx]
            /\ UNCHANGED <<calls, jira>>
       ELSE IF isConflictingEpic(other, loc.desiredKey)
       THEN \E ok \in BOOLEAN :
              \* deleteLink: DELETE /rest/api/2/issueLink/<id>
              /\ ok => \E l \in jira.links : l.id = link.id
              /\ calls' = Append(calls, [op |-> "deleteLink", id |-> link.id, ok |-> ok,
                                         arg |-> loc.argIdx, other |-> other])
              /\ IF ok
                 THEN /\ jira' = [jira EXCEPT !.links = {l \in @ : l.id # link.id}]
                      /\ loc' = [loc EXCEPT !.linkIdx = idx]
                      /\ pc' = after
                 ELSE /\ loc' = [loc EXCEPT !.err = "error"]
                      /\ pc' = "return"
                      /\ UNCHANGED jira
       ELSE /\ pc' = after
            /\ loc' = [loc EXCEPT !.linkIdx = idx]
            /\ UNCHANGED <<calls, jira>>

linkEpics_Inward ==
    /\ pc = "link_inward"
    /\ linkEpics_branch(loc.issueLinks[loc.linkIdx].inward, "link_outward", loc.linkIdx)
    /\ UNCHANGED <<opts, args, exit, ran, session, fs, thumbVars>>

linkEpics_Outward ==
    /\ pc = "link_outward"
    /\ linkEpics_branch(loc.issueLinks[loc.linkIdx].outward,
                        IF loc.linkIdx + 1 > Len(loc.issueLinks)
                        THEN "link_add" ELSE "link_inward",
                        loc.linkIdx + 1)
    /\ UNCHANGED <<opts, args, exit, ran, session, fs, thumbVars>>

\* "if !linked { ... jc.Issue.AddLink(newLink) ... }" and the end of the loop body
linkEpics_AddLink ==
    /\ pc = "link_add"
    /\ IF loc.linked
       THEN /\ loc' = [loc EXCEPT !.argIdx = @ + 1]
            /\ pc' = "link_loop"
            /\ UNCHANGED <<calls, jira>>
       ELSE \E ok \in BOOLEAN :
              LET l == newLink(loc.desiredKey, args[loc.argIdx])
              IN /\ ok => AddLinkAccepted(l)
                 /\ calls' = Append(calls, [op |-> "AddLink", link |-> l, ok |-> ok,
                                            arg |-> loc.argIdx])
                 /\ IF ok
                    THEN /\ jira' = [jira EXCEPT
                                       !.links = @ \cup {[id |-> jira.nextLinkId,
                                                          inward |-> l.inward,
                                                          outward |-> l.outward]},
                                       !.nextLinkId = @ + 1]
                         /\ loc' = [loc EXCEPT !.argIdx = @ + 1]
                         /\ pc' = "link_loop"
                    ELSE /\ loc' = [loc EXCEPT !.err = "error"]
                         /\ pc' = "return"
                         /\ UNCHANGED jira
    /\ UNCHANGED <<opts, args, exit, ran, session, fs, thumbVars>>

\* the -epic argument: the number of an epic, of a story, or a summary text
EpicArgs == {<<"1">>, <<"2">>, <<"3">>, <<"e">>}

LinkPairs == {p \in Issues \X Issues : p[1] # p[2]}

\* the links on the tracker before the run: at most MaxLinks, with ids 1..n
InitialLinkSets ==
    {{[id |-> i, inward |-> f[i][1], outward |-> f[i][2]] : i \in DOMAIN f} :
        f \in {g \in SeqsUpTo(LinkPairs, MaxLinks) :
                 \A i, j \in 1..Len(g) :
                    i < j => g[i][1] * 10 + g[i][2] < g[j][1] * 10 + g[j][2]}}

\* linkEpics is entered with any issue numbers as arguments, those of Epics
\* and of the target among them, in any order and with repetitions
InitLink ==
    /\ pc = "linkEpics"
    /\ \E e \in EpicArgs : opts = [DefaultOpts EXCEPT !.epic = e]
    /\ args \in SeqsUpTo(Issues, MaxArgs)
    /\ exit = "running"
    /\ ran = <<"epic">>
    /\ calls = <<>>
    /\ session = TRUE
    /\ \E L \in InitialLinkSets :
         jira = [NoJira EXCEPT !.issues = Issues, !.links = L, !.nextLinkId = MaxLinks + 1]
    /\ fs = NoFs
    /\ loc = [Locals EXCEPT !.action = "epic"]
    /\ IdleThumb

NextLink ==
    \/ linkEpics_findEpic
    \/ linkEpics_GetList
    \/ linkEpics_Get
    \/ linkEpics_Inward
    \/ linkEpics_Outward
    \/ linkEpics_AddLink
    \/ MainReturn

SpecLink == InitLink /\ [][NextLink]_vars

(***************************************************************************)
(* Claims about linkEpics (checked under SpecLink).                        *)
(***************************************************************************)
\* positions in the log of the calls of kind op made for the a-th argument
CallsFor(op, a) == {k \in 1..Len(calls) : calls[k].op = op /\ calls[k].arg = a}

\* the links of the a-th issue as its Issue.Get returned them
LinksSeen(a) ==
    LET g == CHOOSE k \in CallsFor("Get", a) : TRUE
    IN {calls[g].links[k] : k \in 1..Len(calls[g].links)}

OtherIssue(v) == IF v.inward # Nil THEN v.inward ELSE v.outward

\* the a-th issue was fetched
Fetched(a) == \E k \in CallsFor("Get", a) : calls[k].ok

\* the link scan of the a-th issue ran to its end and the decision whether
\* to add a link was taken
Processed(a) ==
    Fetched(a) /\ (loc.argIdx > a \/ CallsFor("AddLink", a) # {})

LinkedToTarget(a) ==
    \E v \in LinksSeen(a) : v.inward = loc.desiredKey \/ v.outward = loc.desiredKey

Conflicting(v) ==
    IssueTypeName(OtherIssue(v)) = "Epic" /\ OtherIssue(v) # loc.desiredKey

\* C4: for each processed issue, no AddLink call is made when one of its
\* links has the target epic as inward or outward issue; otherwise exactly
\* one AddLink call is made, of type "Relates", inward the target epic,
\* outward the processed issue.
C4_AddLinkOnlyWhenNeeded ==
    \A a \in 1..Len(args) :
        /\ ~Processed(a) => Cardinality(CallsFor("AddLink", a)) <= 1
        /\ Processed(a) =>
             IF LinkedToTarget(a)
             THEN CallsFor("AddLink", a) = {}
             ELSE /\ Cardinality(CallsFor("AddLink", a)) = 1
                  /\ \A k \in CallsFor("AddLink", a) :
                       calls[k].link = [type |-> "Relates",
                                        inward |-> loc.desiredKey,
                                        outward |-> args[a]]

C4_Witness ==
    /\ exit = "ok"
    /\ \E a, b \in 1..Len(args) :
         /\ Processed(a) /\ LinkedToTarget(a) /\ LinksSeen(a) # {}
         /\ Processed(b) /\ ~LinkedToTarget(b) /\ LinksSeen(b) # {}
         /\ \E k \in CallsFor("AddLink", b) : calls[k].ok

\* the a-th issue is, for the issues linked to it, an Epic other than the target
ConflictingFor(a) ==
    IssueTypeName(args[a]) = "Epic" /\ args[a] # loc.desiredKey

\* the link with this id is on the tracker
LinkExists(id) == \E l \in jira.links : l.id = id

\* the link v seen from the a-th issue was deleted while its other issue was
\* processed, as a conflicting link of that issue
DeletedFromOtherSide(a, v) ==
    /\ ConflictingFor(a)
    /\ \E b \in 1..Len(args) :
         /\ args[b] = OtherIssue(v)
         /\ \E k \in CallsFor("deleteLink", b) :
              calls[k].id = v.id /\ calls[k].ok /\ calls[k].other = args[a]

\* a deletion is issued only for a link of the issue being processed whose
\* other issue is an Epic other than the target
DeletesOnlyConflicting ==
    \A a \in 1..Len(args) : \A k \in CallsFor("deleteLink", a) :
        \E v \in LinksSeen(a) : v.id = calls[k].id /\ Conflicting(v)

\* every conflicting link of a processed issue was deleted in its scan
DeletesEveryConflicting ==
    \A a \in 1..Len(args) : Processed(a) =>
        \A v \in LinksSeen(a) : Conflicting(v) =>
            /\ \E k \in CallsFor("deleteLink", a) : calls[k].id = v.id /\ calls[k].ok
            /\ ~LinkExists(v.id)

\* after a return without error every processed issue is linked to the
\* target and to no other Epic
OnlyTargetEpicAtEnd ==
    (pc = "exit" /\ exit = "ok") =>
        \A a \in 1..Len(args) :
            /\ \E l \in jira.links :
                 {l.inward, l.outward} = {args[a], loc.desiredKey}
            /\ \A l \in jira.links :
                 args[a] \in {l.inward, l.outward} =>
                    \A o \in {l.inward, l.outward} \ {args[a]} :
                       IssueTypeName(o) = "Epic" => o = loc.desiredKey

\* C5 as stated: for each processed issue every link whose other issue is an
\* Epic other than the target is deleted, and the links to non-Epic issues
\* and the link to the target are never deleted; after linkEpics returned
\* without error every processed issue is linked to the target and to no
\* other Epic.
C5_RemovesExactlyConflicting ==
    /\ DeletesOnlyConflicting
    /\ DeletesEveryConflicting
    /\ \A a \in 1..Len(args) : Fetched(a) =>
         \A v \in LinksSeen(a) : ~Conflicting(v) => LinkExists(v.id)
    /\ OnlyTargetEpicAtEnd

\* C5 amended: as C5, except that the links of a processed issue to non-Epic
\* issues and to the target are never deleted in the scan of that issue: such
\* a link is deleted only in the scan of its other issue and only when the
\* first issue is itself an Epic other than the target, and it is then
\* deleted whenever the other issue is processed later in the run.
C5_RemovesConflictingOfTheScannedIssue ==
    /\ DeletesOnlyConflicting
    /\ DeletesEveryConflicting
    /\ \A a \in 1..Len(args) : Fetched(a) =>
         \A v \in LinksSeen(a) : ~Conflicting(v) =>
            /\ LinkExists(v.id) \/ DeletedFromOtherSide(a, v)
            /\ \A b \in 1..Len(args) :
                 (Processed(b) /\ b > a /\ args[b] = OtherIssue(v) /\ ConflictingFor(a))
                    => ~LinkExists(v.id)
    /\ OnlyTargetEpicAtEnd

\* linkEpics returned without error after the scan of one issue deleted a
\* conflicting link and kept a link to a non-Epic issue, and the scan of
\* another issue deleted a link that an Epic among the arguments had to it
C5_Witness ==
    /\ pc = "exit" /\ exit = "ok"
    /\ \E a \in 1..Len(args) :
         /\ \E k \in CallsFor("deleteLink", a) : calls[k].ok
         /\ \E v \in LinksSeen(a) :
              ~Conflicting(v) /\ OtherIssue(v) # loc.desiredKey /\ LinkExists(v.id)
    /\ \E a \in 1..Len(args) : \E v \in LinksSeen(a) :
         ~Conflicting(v) /\ DeletedFromOtherSide(a, v)

(***************************************************************************)
(* main of jira-status.go: flags, client, authentication, dispatch.        *)
(***************************************************************************)
\* the cascade with the tests of -mirror and -progress in the other order
dispatchProgressFirst(o) ==
    IF o.upkeep THEN "upkeep"
    ELSE IF o.progress THEN "progress"
    ELSE IF o.mirror THEN "mirror"
    ELSE IF o.search # <<>> THEN "search"
    ELSE IF o.pull # <<>> THEN "pull"
    ELSE IF o.pending THEN "pending"
    ELSE IF o.deployedPortal THEN "deployed-portal"
    ELSE IF o.deployedApp THEN "deployed-app"
    ELSE IF Len(o.version) > 0 THEN "version"
    ELSE "listing"

\* the if-cascade of main after authentication: the branch that runs
dispatch(o) ==
    IF o.upkeep THEN "upkeep"
    ELSE IF o.mirror THEN "mirror"
    ELSE IF o.progress THEN "progress"
    ELSE IF o.search # <<>> THEN "search"
    ELSE IF o.pull # <<>> THEN "pull"
    ELSE IF o.pending THEN "pending"
    ELSE IF o.deployedPortal THEN "deployed-portal"
    ELSE IF o.deployedApp THEN "deployed-app"
    ELSE IF Len(o.version) > 0 THEN "version"
    ELSE "listing"

\* the table with -pending calling changeStatus
EntryOfPendingChanges(action) ==
    CASE action = "upkeep" -> "upkeep"
      [] action = "mirror" -> "mirror"
      [] action \in {"progress", "search", "listing"} -> "displaySearch"
      [] action = "pull" -> "findIssue"
      [] action \in {"pending", "deployed-portal", "deployed-app"} -> "changeStatus"
      [] action = "version" -> "reversion"

\* the procedure a branch calls first
EntryOf(action) ==
    CASE action = "upkeep" -> "upkeep"
      [] action = "mirror" -> "mirror"
      [] action \in {"progress", "search", "pending", "listing"} -> "displaySearch"
      [] action = "pull" -> "findIssue"
      [] action \in {"deployed-portal", "deployed-app"} -> "changeStatus"
      [] action = "version" -> "reversion"

\* the JQL text a branch builds, by name
SearchOf(action) ==
    CASE action = "progress" -> "in-progress mine"
      [] action = "search" -> "summary"
      [] action = "pull" -> "key"
      [] action = "pending" -> "ready-for-deploy"
      [] action = "deployed-portal" -> "ready-for-deploy portal backend"
      [] action = "deployed-app" -> "ready-for-deploy mobile-app"
      [] action = "listing" -> "mine"
      [] OTHER -> "none"

\* the desired status a branch passes down
DesiredOf(action) ==
    CASE action \in {"deployed-portal", "deployed-app"} -> "Awaiting QA"
      [] action = "pull" -> "In Progress"
      [] OTHER -> "none"

\* the test with && instead of ||
authFailedBoth(res, err) == err /\ res = FALSE

\* "if err != nil || res == false"
authFailed(res, err) == err \/ res = FALSE

\* "if options.Help { flag.Usage(); return }"
main_Help ==
    /\ pc = "main"
    /\ opts.help
    /\ ran' = Append(ran, "help")
    /\ exit' = "ok"
    /\ pc' = "exit"
    /\ UNCHANGED <<opts, args, calls, session, jira, fs, loc, thumbVars>>

\* jira.NewClient: on an error main prints it and returns
main_NewClient ==
    /\ pc = "main"
    /\ ~opts.help
    /\ \E ok \in BOOLEAN :
         /\ calls' = Append(calls, [op |-> "NewClient", ok |-> ok])
         /\ IF ok
            THEN pc' = "authenticate" /\ UNCHANGED exit
            ELSE pc' = "exit" /\ exit' = "ok"
    /\ UNCHANGED <<opts, args, ran, session, jira, fs, loc, thumbVars>>

\* jc.Authentication.AcquireSessionCookie and the check of its two results
main_Authenticate ==
    /\ pc = "authenticate"
    /\ \E res \in BOOLEAN, err \in BOOLEAN :
         /\ calls' = Append(calls, [op |-> "AcquireSessionCookie", res |-> res,
                                    err |-> err, ok |-> res /\ ~err])
         /\ IF authFailed(res, err)
            THEN /\ exit' = "fatal"
                 /\ pc' = "exit"
                 /\ UNCHANGED session
            ELSE /\ session' = (res /\ ~err)
                 /\ pc' = "dispatch"
                 /\ UNCHANGED exit
    /\ UNCHANGED <<opts, args, ran, jira, fs, loc, thumbVars>>

\* the if-cascade: the chosen branch builds its arguments and calls its procedure
main_Dispatch ==
    /\ pc = "dispatch"
    /\ LET action == dispatch(opts)
       IN /\ ran' = Append(ran, action)
          /\ loc' = [loc EXCEPT !.action = action,
                                !.search = SearchOf(action),
                                !.desired = DesiredOf(action)]
          /\ pc' = EntryOf(action)
    /\ UNCHANGED <<opts, args, exit, calls, session, jira, fs, thumbVars>>

(***************************************************************************)
(* What the tracker answers.                                               *)
(***************************************************************************)
DistinctSeqs(S, n) ==
    {q \in SeqsUpTo(S, n) : \A i, j \in 1..Len(q) : i # j => q[i] # q[j]}

\* jc.Issue.Search: an error, or some of the tracker's issues in some order
SearchAnswers ==
    {[ok |-> FALSE, issues |-> <<>>]}
    \cup {[ok |-> TRUE, issues |-> q] : q \in DistinctSeqs(jira.issues, MaxResults)}

StatusNames == {"Awaiting QA", "In Progress"}

\* jc.Issue.GetTransitions: an error, or the transitions now available, each
\* with its own id (its position in the workflow's list) and its destination
\* status
TransitionAnswers ==
    {[ok |-> FALSE, transitions |-> <<>>]}
    \cup {[ok |-> TRUE, transitions |-> [k \in 1..Len(q) |-> [id |-> k, to |-> q[k]]]] :
            q \in SeqsUpTo(StatusNames, MaxTransitions)}

(***************************************************************************)
(* displaySearch, changeStatus, changeIssueStatus, findIssue, pullIssue.   *)
(***************************************************************************)
displaySearch_Search ==
    /\ pc = "displaySearch"
    /\ \E r \in SearchAnswers :
         /\ calls' = Append(calls, [op |-> "Search", jql |-> loc.search, ok |-> r.ok])
         /\ loc' = [loc EXCEPT !.issues = r.issues,
                               !.err = IF r.ok THEN "nil" ELSE "error getting issues"]
    /\ pc' = "return"
    /\ UNCHANGED <<opts, args, exit, ran, session, jira, fs, thumbVars>>

changeStatus_Search ==
    /\ pc = "changeStatus"
    /\ \E r \in SearchAnswers :
         /\ calls' = Append(calls, [op |-> "Search", jql |-> loc.search, ok |-> r.ok])
         /\ IF r.ok
            THEN /\ loc' = [loc EXCEPT !.issues = r.issues, !.idx = 1]
                 /\ pc' = "changeStatus_loop"
            ELSE /\ loc' = [loc EXCEPT !.err = "error getting issues"]
                 /\ pc' = "return"
    /\ UNCHANGED <<opts, args, exit, ran, session, jira, fs, thumbVars>>

\* "for _, i := range issues": the call of changeIssueStatus, or the end
changeStatus_Loop ==
    /\ pc = "changeStatus_loop"
    /\ IF loc.idx > Len(loc.issues)
       THEN pc' = "return" /\ UNCHANGED loc
       ELSE /\ loc' = [loc EXCEPT !.issue = loc.issues[loc.idx]]
            /\ pc' = "changeIssueStatus"
    /\ UNCHANGED <<opts, args, exit, ran, calls, session, jira, fs, thumbVars>>

\* the test that accepts the first of several issues
foundSome(issues) == Len(issues) >= 1

\* the negation of "if len(issues) != 1"
foundOne(issues) == Len(issues) = 1

\* findIssue, and main's call of pullIssue with the issue found
findIssue_Search ==
    /\ pc = "findIssue"
    /\ \E r \in SearchAnswers :
         /\ calls' = Append(calls, [op |-> "Search", jql |-> loc.search, ok |-> r.ok])
         /\ IF ~r.ok
            THEN /\ loc' = [loc EXCEPT !.err = "error getting issues"]
                 /\ pc' = "return"
            ELSE IF ~foundOne(r.issues)
            THEN /\ loc' = [loc EXCEPT !.issues = r.issues, !.err = "unable to find issue"]
                 /\ pc' = "return"
            ELSE /\ loc' = [loc EXCEPT !.issues = r.issues, !.issue = r.issues[1]]
                 /\ pc' = "changeIssueStatus"
    /\ UNCHANGED <<opts, args, exit, ran, session, jira, fs, thumbVars>>

changeIssueStatus_GetTransitions ==
    /\ pc = "changeIssueStatus"
    /\ \E r \in TransitionAnswers :
         /\ calls' = Append(calls, [op |-> "GetTransitions", issue |-> loc.issue, ok |-> r.ok])
         /\ IF r.ok
            THEN /\ loc' = [loc EXCEPT !.transitions = r.transitions, !.result = "none"]
                 /\ pc' = "changeIssueStatus_scan"
            ELSE /\ loc' = [loc EXCEPT !.transitions = <<>>, !.result = "err"]
                 /\ pc' = "changeIssueStatus_ret"
    /\ UNCHANGED <<opts, args, exit, ran, session, jira, fs, thumbVars>>

\* the test that accepts any transition
transitionMatchesAny(transition, desired) == TRUE

\* "transition.To.Name == desired"
transitionMatches(transition, desired) == transition.to = desired

\* the scan that keeps going after a match: the last matching index
transitionIndexLast(transitions, desired) ==
    LET m == {k \in 1..Len(transitions) : transitionMatches(transitions[k], desired)}
    IN IF m = {} THEN 0 ELSE CHOOSE k \in m : \A j \in m : j <= k

\* "for _, transition := range transitions": the index the loop stops at,
\* 0 when it runs to the end
transitionIndex(transitions, desired) ==
    LET m == {k \in 1..Len(transitions) : transitionMatches(transitions[k], desired)}
    IN IF m = {} THEN 0 ELSE CHOOSE k \in m : \A j \in m : k <= j

changeIssueStatus_Scan ==
    /\ pc = "changeIssueStatus_scan"
    /\ LET k == transitionIndex(loc.transitions, loc.desired)
       IN IF k = 0
          THEN /\ loc' = [loc EXCEPT !.result = "missing transition"]
               /\ UNCHANGED <<calls, jira>>
          ELSE \E ok \in BOOLEAN :
                 /\ calls' = Append(calls, [op |-> "DoTransition", issue |-> loc.issue,
                                            id |-> loc.transitions[k].id,
                                            to |-> loc.transitions[k].to, ok |-> ok])
                 /\ IF ok
                    THEN /\ jira' = [jira EXCEPT !.status[loc.issue] = loc.transitions[k].to]
                         /\ loc' = [loc EXCEPT !.result = "nil"]
                    ELSE /\ loc' = [loc EXCEPT !.result = "error updating status"]
                         /\ UNCHANGED jira
    /\ pc' = "changeIssueStatus_ret"
    /\ UNCHANGED <<opts, args, exit, ran, session, fs, thumbVars>>

\* the loop that goes on whatever changeIssueStatus returned
returnsErrNever(result) == FALSE

\* "if err := changeIssueStatus(jc, &i, desired); err != nil { return err }"
returnsErr(result) == result # "nil"

\* back in the caller: changeStatus returns the error or goes on with the
\* next issue; pullIssue returns what it got
changeIssueStatus_Return ==
    /\ pc = "changeIssueStatus_ret"
    /\ IF loc.action = "pull" \/ returnsErr(loc.result)
       THEN /\ loc' = [loc EXCEPT !.err = loc.result]
            /\ pc' = "return"
       ELSE /\ loc' = [loc EXCEPT !.idx = @ + 1]
            /\ pc' = "changeStatus_loop"
    /\ UNCHANGED <<opts, args, exit, ran, calls, session, jira, fs, thumbVars>>

\* the invocations that transition issues: -deployed-portal, -deployed-app,
\* both, and -pull
StatusOpts ==
    {[DefaultOpts EXCEPT !.deployedPortal = TRUE],
     [DefaultOpts EXCEPT !.deployedApp = TRUE],
     [DefaultOpts EXCEPT !.deployedPortal = TRUE, !.deployedApp = TRUE],
     [DefaultOpts EXCEPT !.pull = <<"3">>]}

InitStatus ==
    /\ pc = "main"
    /\ opts \in StatusOpts
    /\ args = <<>>
    /\ exit = "running"
    /\ ran = <<>>
    /\ calls = <<>>
    /\ session = FALSE
    /\ jira = [NoJira EXCEPT !.issues = Issues,
                             !.status = [i \in Issues |-> "Ready for Deploy"]]
    /\ fs = NoFs
    /\ loc = Locals
    /\ IdleThumb

NextStatus ==
    \/ main_NewClient
    \/ main_Authenticate
    \/ main_Dispatch
    \/ changeStatus_Search
    \/ changeStatus_Loop
    \/ findIssue_Search
    \/ changeIssueStatus_GetTransitions
    \/ changeIssueStatus_Scan
    \/ changeIssueStatus_Return
    \/ MainReturn

SpecStatus == InitStatus /\ [][NextStatus]_vars

(***************************************************************************)
(* Claims about changeIssueStatus and the deploy-status actions (checked   *)
(* under SpecStatus).                                                      *)
(***************************************************************************)
\* positions in the log of the DoTransition calls for issue i
TransitionsOf(i) == {k \in 1..Len(calls) : calls[k].op = "DoTransition" /\ calls[k].issue = i}

\* the positions of the transitions changeIssueStatus scanned whose
\* destination is the desired status
Matching == {k \in 1..Len(loc.transitions) : loc.transitions[k].to = loc.desired}

FirstMatching == CHOOSE k \in Matching : \A j \in Matching : k <= j

\* changeIssueStatus has returned after scanning the transitions it fetched
ScannedAndReturned == pc = "changeIssueStatus_ret" /\ loc.result # "err"

\* C6 as stated: when a transition to the desired status is available,
\* exactly one DoTransition is performed, with the first such transition, and
\* success is returned; when none is, no transition is performed and the
\* error is "missing transition".
C6_FirstMatchThenSuccess ==
    ScannedAndReturned =>
        IF Matching # {}
        THEN /\ Cardinality(TransitionsOf(loc.issue)) = 1
             /\ \A k \in TransitionsOf(loc.issue) :
                  calls[k].id = loc.transitions[FirstMatching].id
             /\ loc.result = "nil"
        ELSE /\ TransitionsOf(loc.issue) = {}
             /\ loc.result = "missing transition"

\* C6 amended: as above, but the result is success only if the DoTransition
\* call succeeded, and "error updating status" if it failed; when the
\* transitions cannot be fetched no transition is performed.
C6_FirstMatchThenCallResult ==
    /\ ScannedAndReturned =>
        IF Matching # {}
        THEN /\ Cardinality(TransitionsOf(loc.issue)) = 1
             /\ \A k \in TransitionsOf(loc.issue) :
                  /\ calls[k].id = loc.transitions[FirstMatching].id
                  /\ loc.result = IF calls[k].ok THEN "nil" ELSE "error updating status"
        ELSE /\ TransitionsOf(loc.issue) = {}
             /\ loc.result = "missing transition"
    /\ (pc = "changeIssueStatus_ret" /\ loc.result = "err") =>
        TransitionsOf(loc.issue) = {}

C6_Witness ==
    /\ ScannedAndReturned
    /\ Cardinality(Matching) >= 2
    /\ loc.action = "deployed-app"
    /\ loc.idx = 2
    /\ loc.result = "nil"

\* C7: when -deployed-portal or -deployed-app has completed without error,
\* every issue its "Ready for Deploy" search returned has had exactly one
\* transition performed, to "Awaiting QA", and no other issue has had any.
C7_DeployTransitionsSearchResult ==
    (pc = "exit" /\ exit = "ok" /\ (opts.deployedPortal \/ opts.deployedApp) /\ session) =>
        /\ \E k \in 1..Len(calls) :
             /\ calls[k].op = "Search"
             /\ calls[k].ok
             /\ calls[k].jql = IF opts.deployedPortal
                               THEN "ready-for-deploy portal backend"
                               ELSE "ready-for-deploy mobile-app"
             /\ \A j \in 1..Len(calls) : calls[j].op = "Search" => j = k
        /\ \A i \in Issues :
             IF \E n \in 1..Len(loc.issues) : loc.issues[n] = i
             THEN /\ Cardinality(TransitionsOf(i)) = 1
                  /\ \A k \in TransitionsOf(i) : calls[k].ok /\ calls[k].to = "Awaiting QA"
                  /\ jira.status[i] = "Awaiting QA"
             ELSE /\ TransitionsOf(i) = {}
                  /\ jira.status[i] = "Ready for Deploy"

C7_Witness ==
    /\ pc = "exit" /\ exit = "ok" /\ opts.deployedApp /\ ~opts.deployedPortal
    /\ Len(loc.issues) = 2
    /\ \A n \in 1..Len(loc.issues) : jira.status[loc.issues[n]] = "Awaiting QA"

(***************************************************************************)
(* Text helpers of mirror and reversion.                                   *)
(***************************************************************************)
UpperLetters == <<"A", "B", "C", "D", "E", "F", "G", "H", "I", "J", "K", "L", "M",
                  "N", "O", "P", "Q", "R", "S", "T", "U", "V", "W", "X", "Y", "Z">>
LowerLetters == <<"a", "b", "c", "d", "e", "f", "g", "h", "i", "j", "k", "l", "m",
                  "n", "o", "p", "q", "r", "s", "t", "u", "v", "w", "x", "y", "z">>
DigitChars == <<"0", "1", "2", "3", "4", "5", "6", "7", "8", "9">>

\* the grave accent character, which a string of this language cannot hold
Backtick == "grave-accent"

\* the vertical tab character (0x0B), which a string of this language
\* cannot hold
VTab == "vertical-tab"

\* the characters in byte order, for the order of ioutil.ReadDir
ByteOrder ==
    <<"\t", "\n", VTab, " ", "!", "\"", "'", "(", ")", "+", "-", ".", "/">> \o DigitChars
    \o <<":", "?">> \o UpperLetters \o <<"_", Backtick>> \o LowerLetters \o <<"|">>

CharOrd(c) == CHOOSE k \in 1..Len(ByteOrder) : ByteOrder[k] = c

RECURSIVE LexLess(_, _)
LexLess(s, t) ==
    IF t = <<>> THEN FALSE
    ELSE IF s = <<>> THEN TRUE
    ELSE IF Head(s) = Head(t) THEN LexLess(Tail(s), Tail(t))
    ELSE CharOrd(Head(s)) < CharOrd(Head(t))

RECURSIVE SortNames(_)
SortNames(S) ==
    IF S = {} THEN <<>>
    ELSE LET m == CHOOSE x \in S : \A y \in S \ {x} : LexLess(x, y)
         IN <<m>> \o SortNames(S \ {m})

\* strings.ToLower
ToLowerChar(c) ==
    IF \E k \in 1..Len(UpperLetters) : UpperLetters[k] = c
    THEN LowerLetters[CHOOSE k \in 1..Len(UpperLetters) : UpperLetters[k] = c]
    ELSE c

ToLower(s) == [k \in 1..Len(s) |-> ToLowerChar(s[k])]

\* unicode.IsSpace, the white space of strings.TrimSpace
IsSpace(c) == c \in {" ", "\t", "\n", VTab}

\* \s of the regexp package: [\t\n\f\r ], without the vertical tab
regexpSpace(c) == c \in {" ", "\t", "\n"}

\* the rest of s after its leading run of \s
RECURSIVE skipSpaces(_)
skipSpaces(s) == IF s # <<>> /\ regexpSpace(Head(s)) THEN skipSpaces(Tail(s)) ELSE s

RECURSIVE TrimLeft(_)
TrimLeft(s) == IF s # <<>> /\ IsSpace(Head(s)) THEN TrimLeft(Tail(s)) ELSE s

RECURSIVE TrimRight(_)
TrimRight(s) ==
    IF s # <<>> /\ IsSpace(s[Len(s)]) THEN TrimRight(SubSeq(s, 1, Len(s) - 1)) ELSE s

TrimSpace(s) == TrimRight(TrimLeft(s))

HasPrefix(s, prefix) ==
    Len(s) >= Len(prefix) /\ SubSeq(s, 1, Len(prefix)) = prefix

HasSuffix(s, suffix) ==
    Len(s) >= Len(suffix) /\ SubSeq(s, Len(s) - Len(suffix) + 1, Len(s)) = suffix

\* strings.Contains
Contains(s, sub) ==
    \E k \in 1..(Len(s) + 1) : HasPrefix(SubSeq(s, k, Len(s)), sub)

\* strings.ReplaceAll(s, old, new): left to right, non-overlapping; an empty
\* old matches before every character and at the end
RECURSIVE ReplaceAll(_, _, _)
ReplaceAll(s, old, new) ==
    IF old = <<>>
    THEN IF s = <<>> THEN new
         ELSE new \o <<Head(s)>> \o (IF Tail(s) = <<>> THEN new ELSE ReplaceAll(Tail(s), old, new))
    ELSE IF s = <<>> THEN <<>>
    ELSE IF HasPrefix(s, old)
         THEN new \o ReplaceAll(SubSeq(s, Len(old) + 1, Len(s)), old, new)
         ELSE <<Head(s)>> \o ReplaceAll(Tail(s), old, new)

\* strconv.Itoa for a number from 0 to 99
Itoa(n) ==
    IF n < 10 THEN <<DigitChars[n + 1]>>
    ELSE <<DigitChars[(n \div 10) + 1], DigitChars[(n % 10) + 1]>>

\* issue.Key of issue number n
KeyOf(n) == <<"F", "K", "-">> \o Itoa(n)

\* removeRegexp: the class of : " ? ' + . ` ! and the two parentheses
removeRegexp(c) == c \in {":", "\"", "?", "'", "+", ".", Backtick, "!", "(", ")"}

\* spacesRegexp = [-_]
spacesRegexp(c) == c \in {"-", "_"}

\* removeRegexp.ReplaceAllLiteralString(value, ""): every character of the
\* class is dropped
RECURSIVE removeRegexpReplace(_)
removeRegexpReplace(s) ==
    IF s = <<>> THEN <<>>
    ELSE (IF removeRegexp(Head(s)) THEN <<>> ELSE <<Head(s)>>)
         \o removeRegexpReplace(Tail(s))

\* spacesRegexp.ReplaceAllLiteralString(value, " "): every character of the
\* class becomes a blank
RECURSIVE spacesRegexpReplace(_)
spacesRegexpReplace(s) ==
    IF s = <<>> THEN <<>>
    ELSE (IF spacesRegexp(Head(s)) THEN <<" ">> ELSE <<Head(s)>>)
         \o spacesRegexpReplace(Tail(s))

\* the pattern \s instead: every white space character becomes a "_"
normalizeRegexpEach(s) ==
    [k \in 1..Len(s) |-> IF regexpSpace(s[k]) THEN "_" ELSE s[k]]

\* normalizeRegexp = \s+ replaced by "_": every run of \s becomes one "_"
RECURSIVE normalizeRegexp(_)
normalizeRegexp(s) ==
    IF s = <<>> THEN <<>>
    ELSE IF regexpSpace(Head(s))
         THEN <<"_">> \o normalizeRegexp(skipSpaces(s))
         ELSE <<Head(s)>> \o normalizeRegexp(Tail(s))

makeDirectoryName(key, summary) ==
    LET value == ToLower(key \o <<"_">> \o TrimSpace(summary))
        removed == removeRegexpReplace(value)
        spaced == spacesRegexpReplace(removed)
    IN normalizeRegexp(spaced)

\* files is the sequence ioutil.ReadDir returned; <<>> stands for ""
RECURSIVE findExistingDirectory(_, _)
findExistingDirectory(key, files) ==
    IF files = <<>> THEN <<>>
    ELSE IF HasPrefix(ToLower(Head(files)), ToLower(key)) THEN Head(files)
    ELSE findExistingDirectory(key, Tail(files))

\* path.Ext: from the last "." of the last path element, "" when it has none
RECURSIVE PathExt(_, _)
PathExt(name, i) ==
    IF i < 1 \/ name[i] = "/" THEN <<>>
    ELSE IF name[i] = "." THEN SubSeq(name, i, Len(name))
    ELSE PathExt(name, i - 1)

makeUniqueName(name, unique) ==
    LET ext == PathExt(name, Len(name))
        noExt == ReplaceAll(name, ext, <<>>)
    IN noExt \o <<"_">> \o unique \o ext

\* the pattern without the "$" anchors: the ending found anywhere in the name
shouldMirrorAnywhere(name) ==
    \/ Contains(name, <<".", "t", "x", "t">>)
    \/ Contains(name, <<".", "z", "i", "p">>)
    \/ Contains(name, <<".", "b", "i", "n">>)

\* mirroring = (\.txt$|\.zip$|\.bin$)
shouldMirror(name) ==
    \/ HasSuffix(name, <<".", "t", "x", "t">>)
    \/ HasSuffix(name, <<".", "z", "i", "p">>)
    \/ HasSuffix(name, <<".", "b", "i", "n">>)

\* the literal text "https://code.conservify.org/diagnostics?id=" and the
\* same with "/" before the "?", each one element of a text
DiagURL == "https://code.conservify.org/diagnostics?id="
DiagURLSlash == "https://code.conservify.org/diagnostics/?id="

\* where the run of \S that starts at index k of text stops (first index
\* after it)
RECURSIVE NonSpaceEnd(_, _)
NonSpaceEnd(text, k) ==
    IF k <= Len(text) /\ ~regexpSpace(text[k]) THEN NonSpaceEnd(text, k + 1) ELSE k

\* diagnosticsURL.FindAllStringSubmatch(text, -1): the captured ids, in order
RECURSIVE diagnosticsURL(_, _)
diagnosticsURL(text, i) ==
    IF i > Len(text) THEN <<>>
    ELSE IF text[i] \in {DiagURL, DiagURLSlash} /\ NonSpaceEnd(text, i + 1) > i + 1
         THEN <<SubSeq(text, i + 1, NonSpaceEnd(text, i + 1) - 1)>>
              \o diagnosticsURL(text, NonSpaceEnd(text, i + 1))
         ELSE diagnosticsURL(text, i + 1)

DiagnosticsDash == <<"d", "i", "a", "g", "n", "o", "s", "t", "i", "c", "s", "-">>
DotZip == <<".", "z", "i", "p">>

findInlineURLs(text) ==
    LET ids == diagnosticsURL(text, 1)
    IN [k \in 1..Len(ids) |->
          [name |-> DiagnosticsDash \o ids[k], saveAs |-> ids[k] \o DotZip,
           kind |-> "diagnostics", id |-> ids[k]]]

RECURSIVE commentURLs(_)
commentURLs(comments) ==
    IF comments = <<>> THEN <<>>
    ELSE findInlineURLs(Head(comments).body) \o commentURLs(Tail(comments))

RECURSIVE attachmentURLs(_)
attachmentURLs(attachments) ==
    IF attachments = <<>> THEN <<>>
    ELSE (IF shouldMirror(Head(attachments).filename)
          THEN <<[name |-> Head(attachments).filename,
                  saveAs |-> makeUniqueName(Head(attachments).filename, Head(attachments).id),
                  kind |-> "attachment", id |-> Head(attachments).id]>>
          ELSE <<>>)
         \o attachmentURLs(Tail(attachments))

findAllURLs(description, comments, attachments) ==
    findInlineURLs(description) \o commentURLs(comments) \o attachmentURLs(attachments)

(***************************************************************************)
(* upkeep.                                                                 *)
(***************************************************************************)
upkeep_Search ==
    /\ pc = "upkeep"
    /\ \E r \in SearchAnswers :
         /\ calls' = Append(calls, [op |-> "Search", jql |-> "unresolved", ok |-> r.ok])
         /\ IF r.ok
            THEN /\ loc' = [loc EXCEPT
                              !.issues = r.issues,
                              !.snapshot = [k \in 1..Len(r.issues) |->
                                              jira.description[r.issues[k]]],
                              !.idx = 1]
                 /\ pc' = "upkeep_loop"
            ELSE /\ loc' = [loc EXCEPT !.err = "error getting issues"]
                 /\ pc' = "return"
    /\ UNCHANGED <<opts, args, exit, ran, session, jira, fs, thumbVars>>

\* "for _, i := range issues" and jc.Issue.Get(i.Key, nil)
upkeep_Get ==
    /\ pc = "upkeep_loop"
    /\ IF loc.idx > Len(loc.issues)
       THEN /\ pc' = "return"
            /\ UNCHANGED <<calls, loc>>
       ELSE \E ok \in BOOLEAN :
              /\ calls' = Append(calls, [op |-> "Get", key |-> loc.issues[loc.idx], ok |-> ok,
                                         comments |-> IF ok
                                                      THEN jira.comments[loc.issues[loc.idx]]
                                                      ELSE <<>>])
              /\ IF ok
                 THEN /\ loc' = [loc EXCEPT !.issue = loc.issues[loc.idx],
                                            !.comments = jira.comments[loc.issues[loc.idx]],
                                            !.cidx = 1]
                      /\ pc' = "upkeep_description"
                 ELSE /\ loc' = [loc EXCEPT !.err = "error getting issue"]
                      /\ pc' = "return"
    /\ UNCHANGED <<opts, args, exit, ran, session, jira, fs, thumbVars>>

\* the test that lets every text be written
changedAlways(new, old) == TRUE

\* "newDescription != i.Fields.Description", "newBody != c.Body"
changed(new, old) == new # old

\* the description of the search result, rewritten and sent if it changed
upkeep_Description ==
    /\ pc = "upkeep_description"
    /\ LET description == loc.snapshot[loc.idx]
           newDescription == thumbnailsOf(loc.build, description)
       IN IF changed(newDescription, description)
          THEN \E ok \in BOOLEAN :
                 /\ calls' = Append(calls, [op |-> "Update", key |-> loc.issue,
                                            field |-> "description",
                                            value |-> newDescription, ok |-> ok])
                 /\ IF ok
                    THEN /\ jira' = [jira EXCEPT !.description[loc.issue] = newDescription]
                         /\ pc' = "upkeep_comments"
                         /\ UNCHANGED loc
                    ELSE /\ loc' = [loc EXCEPT !.err = "error updating description"]
                         /\ pc' = "return"
                         /\ UNCHANGED jira
          ELSE /\ pc' = "upkeep_comments"
               /\ UNCHANGED <<calls, jira, loc>>
    /\ UNCHANGED <<opts, args, exit, ran, session, fs, thumbVars>>

\* a call that adds a comment with the body instead
AddComment(comments, id, newCommentBody) ==
    Append(comments, [id |-> Len(comments) + 1, body |-> newCommentBody])

\* what jc.Issue.UpdateComment does to the comments of the issue: the comment
\* with the id gets the body
UpdateComment(comments, id, newCommentBody) ==
    [k \in 1..Len(comments) |->
       IF comments[k].id = id
       THEN [comments[k] EXCEPT !.body = newCommentBody]
       ELSE comments[k]]

\* "for _, c := range issue.Fields.Comments.Comments"
upkeep_Comment ==
    /\ pc = "upkeep_comments"
    /\ IF loc.cidx > Len(loc.comments)
       THEN /\ loc' = [loc EXCEPT !.idx = @ + 1]
            /\ pc' = "upkeep_loop"
            /\ UNCHANGED <<calls, jira>>
       ELSE LET c == loc.comments[loc.cidx]
                newCommentBody == thumbnailsOf(loc.build, c.body)
            IN IF changed(newCommentBody, c.body)
               THEN \E ok \in BOOLEAN :
                      /\ calls' = Append(calls, [op |-> "UpdateComment", key |-> loc.issue,
                                                 id |-> c.id, value |-> newCommentBody,
                                                 ok |-> ok])
                      /\ IF ok
                         THEN /\ jira' = [jira EXCEPT !.comments[loc.issue] =
                                            UpdateComment(@, c.id, newCommentBody)]
                              /\ loc' = [loc EXCEPT !.cidx = @ + 1]
                              /\ pc' = "upkeep_comments"
                         ELSE /\ loc' = [loc EXCEPT !.err = "error updating"]
                              /\ pc' = "return"
                              /\ UNCHANGED jira
               ELSE /\ loc' = [loc EXCEPT !.cidx = @ + 1]
                    /\ pc' = "upkeep_comments"
                    /\ UNCHANGED <<calls, jira>>
    /\ UNCHANGED <<opts, args, exit, ran, session, fs, thumbVars>>

(***************************************************************************)
(* findVersion and reversion.                                              *)
(***************************************************************************)
\* the matches without the test of archived and released
RECURSIVE versionMatchesAnyState(_, _)
versionMatchesAnyState(versions, search) ==
    IF versions = <<>> THEN <<>>
    ELSE (IF Contains(Head(versions).name, search) THEN <<Head(versions)>> ELSE <<>>)
         \o versionMatchesAnyState(Tail(versions), search)

\* the versions of the project that are neither archived nor released and
\* whose name contains the search text, in the project's order
RECURSIVE versionMatches(_, _)
versionMatches(versions, search) ==
    IF versions = <<>> THEN <<>>
    ELSE (IF ~Head(versions).archived /\ ~Head(versions).released
             /\ Contains(Head(versions).name, search)
          THEN <<Head(versions)>> ELSE <<>>)
         \o versionMatches(Tail(versions), search)

\* version, err := findVersion(jc, options.Project, options.Version)
reversion_findVersion ==
    /\ pc = "reversion"
    /\ \E ok \in BOOLEAN :
         /\ calls' = Append(calls, [op |-> "Project.Get", ok |-> ok])
         /\ IF ~ok
            THEN /\ loc' = [loc EXCEPT !.err = "error getting project"]
                 /\ pc' = "return"
            ELSE LET matches == versionMatches(jira.versions, opts.version)
                 IN IF Len(matches) = 0
                    THEN /\ loc' = [loc EXCEPT !.err = "no such version in project"]
                         /\ pc' = "return"
                    ELSE /\ loc' = [loc EXCEPT !.version = [id |-> matches[1].id],
                                               !.argIdx = 1]
                         /\ pc' = "reversion_loop"
    /\ UNCHANGED <<opts, args, exit, ran, session, jira, fs, thumbVars>>

\* "for _, issueNumber := range flag.Args()" and jc.Issue.Get(issueKey, nil)
reversion_Get ==
    /\ pc = "reversion_loop"
    /\ IF loc.argIdx > Len(args)
       THEN /\ pc' = "return"
            /\ UNCHANGED <<calls, loc>>
       ELSE \E ok \in BOOLEAN :
              /\ ok => args[loc.argIdx] \in jira.issues
              /\ calls' = Append(calls, [op |-> "Get", key |-> args[loc.argIdx], ok |-> ok,
                                         fixVersions |-> IF ok
                                                         THEN jira.fixVersions[args[loc.argIdx]]
                                                         ELSE {}])
              /\ IF ok
                 THEN /\ loc' = [loc EXCEPT !.issue = args[loc.argIdx],
                                            !.fixVersions = jira.fixVersions[args[loc.argIdx]]]
                      /\ pc' = "reversion_update"
                 ELSE /\ loc' = [loc EXCEPT !.err = "error getting issue"]
                      /\ pc' = "return"
    /\ UNCHANGED <<opts, args, exit, ran, session, jira, fs, thumbVars>>

\* the update is made whatever the issue has
necessaryAlways(fixVersions, id) == TRUE

\* "necessary": no fix version of the issue has the id of the version
necessary(fixVersions, id) == ~\E fv \in fixVersions : fv = id

\* the update that sets FixVersions to the one version, if necessary
reversion_Update ==
    /\ pc = "reversion_update"
    /\ IF necessary(loc.fixVersions, loc.version.id)
       THEN \E ok \in BOOLEAN :
                 /\ calls' = Append(calls, [op |-> "Update", key |-> loc.issue,
                                            field |-> "fixVersions",
                                            value |-> {loc.version.id}, ok |-> ok])
                 /\ IF ok
                    THEN /\ jira' = [jira EXCEPT !.fixVersions[loc.issue] = {loc.version.id}]
                         /\ loc' = [loc EXCEPT !.argIdx = @ + 1]
                         /\ pc' = "reversion_loop"
                    ELSE /\ loc' = [loc EXCEPT !.err = "error updating description"]
                         /\ pc' = "return"
                         /\ UNCHANGED jira
       ELSE /\ loc' = [loc EXCEPT !.argIdx = @ + 1]
            /\ pc' = "reversion_loop"
            /\ UNCHANGED <<calls, jira>>
    /\ UNCHANGED <<opts, args, exit, ran, session, fs, thumbVars>>

(***************************************************************************)
(* mirror.  The file system is the base directory (present or not), the    *)
(* names of the directories in it, and the files [dir, name, complete] in  *)
(* them.                                                                   *)
(***************************************************************************)
mirror_Search ==
    /\ pc = "mirror"
    /\ \E r \in SearchAnswers :
         /\ calls' = Append(calls, [op |-> "Search", jql |-> "components", ok |-> r.ok,
                                    issues |-> r.issues])
         /\ IF r.ok
            THEN /\ loc' = [loc EXCEPT !.issues = r.issues, !.idx = 1]
                 /\ pc' = "mirror_mkdirbase"
            ELSE /\ loc' = [loc EXCEPT !.err = "error getting issues"]
                 /\ pc' = "return"
    /\ UNCHANGED <<opts, args, exit, ran, session, jira, fs, thumbVars>>

\* os.MkdirAll(base, 0755)
mirror_MkdirBase ==
    /\ pc = "mirror_mkdirbase"
    /\ \E ok \in BOOLEAN :
         /\ calls' = Append(calls, [op |-> "MkdirAll", path |-> <<>>, ok |-> ok])
         /\ IF ok
            THEN /\ fs' = [fs EXCEPT !.base = TRUE]
                 /\ pc' = "mirror_readdir"
                 /\ UNCHANGED loc
            ELSE /\ loc' = [loc EXCEPT !.err = "creating"]
                 /\ pc' = "return"
                 /\ UNCHANGED fs
    /\ UNCHANGED <<opts, args, exit, ran, session, jira, thumbVars>>

\* ioutil.ReadDir(base): the entries sorted by name
mirror_ReadDir ==
    /\ pc = "mirror_readdir"
    /\ \E ok \in BOOLEAN :
         /\ calls' = Append(calls, [op |-> "ReadDir", ok |-> ok])
         /\ IF ok
            THEN /\ loc' = [loc EXCEPT !.files = SortNames(fs.dirs)]
                 /\ pc' = "mirror_loop"
            ELSE /\ loc' = [loc EXCEPT !.err = "reading"]
                 /\ pc' = "return"
    /\ UNCHANGED <<opts, args, exit, ran, session, jira, fs, thumbVars>>

\* "for _, i := range issues", jc.Issue.Get(i.Key, nil), the directory name
\* and the URLs of the issue
mirror_Get ==
    /\ pc = "mirror_loop"
    /\ IF loc.idx > Len(loc.issues)
       THEN /\ pc' = "return"
            /\ UNCHANGED <<calls, loc>>
       ELSE \E ok \in BOOLEAN :
              LET i == loc.issues[loc.idx]
                  existing == findExistingDirectory(KeyOf(i), loc.files)
              IN /\ calls' = Append(calls, [op |-> "Get", key |-> i, ok |-> ok,
                                            summary |-> IF ok THEN jira.summary[i] ELSE <<>>])
                 /\ IF ok
                    THEN /\ loc' = [loc EXCEPT
                                      !.issue = i,
                                      !.directoryName =
                                         IF Len(existing) = 0
                                         THEN makeDirectoryName(KeyOf(i), jira.summary[i])
                                         ELSE existing,
                                      !.urls = findAllURLs(jira.description[i],
                                                           jira.comments[i],
                                                           jira.attachments[i]),
                                      !.uidx = 1]
                         /\ pc' = "mirror_mkdir"
                    ELSE /\ loc' = [loc EXCEPT !.err = "error getting issue"]
                         /\ pc' = "return"
    /\ UNCHANGED <<opts, args, exit, ran, session, jira, fs, thumbVars>>

\* "if err := os.MkdirAll(full, 0755); err != nil { return nil }"
mirror_MkdirIssue ==
    /\ pc = "mirror_mkdir"
    /\ \E ok \in BOOLEAN :
         /\ calls' = Append(calls, [op |-> "MkdirAll", path |-> loc.directoryName, ok |-> ok])
         /\ IF ok
            THEN /\ fs' = [fs EXCEPT !.dirs = @ \cup {loc.directoryName}]
                 /\ pc' = "mirror_stat"
            ELSE /\ pc' = "return"
                 /\ UNCHANGED fs
    /\ UNCHANGED <<opts, args, exit, ran, session, jira, loc, thumbVars>>

\* what os.Stat can answer for a file of a directory
StatAnswers(dir, name) ==
    {"error"} \cup (IF \E f \in fs.files : f.dir = dir /\ f.name = name
                    THEN {"found"} ELSE {"not exist"})

\* "for _, url := range findAllURLs(jc, issue)", os.Stat(saveAsFull) and
\* os.IsNotExist(err)
mirror_Stat ==
    /\ pc = "mirror_stat"
    /\ IF loc.uidx > Len(loc.urls)
       THEN /\ loc' = [loc EXCEPT !.idx = @ + 1]
            /\ pc' = "mirror_loop"
            /\ UNCHANGED calls
       ELSE \E r \in StatAnswers(loc.directoryName, loc.urls[loc.uidx].saveAs) :
              /\ calls' = Append(calls, [op |-> "Stat", dir |-> loc.directoryName,
                                         name |-> loc.urls[loc.uidx].saveAs,
                                         answer |-> r, ok |-> r # "error"])
              /\ IF r = "not exist"
                 THEN /\ pc' = "mirror_download"
                      /\ UNCHANGED loc
                 ELSE /\ loc' = [loc EXCEPT !.uidx = @ + 1]
                      /\ pc' = "mirror_stat"
    /\ UNCHANGED <<opts, args, exit, ran, session, jira, fs, thumbVars>>

\* url.Download(ctx): an error, or the body of the response
mirror_Download ==
    /\ pc = "mirror_download"
    /\ \E ok \in BOOLEAN :
         /\ calls' = Append(calls, [op |-> "Download", kind |-> loc.urls[loc.uidx].kind,
                                    id |-> loc.urls[loc.uidx].id, ok |-> ok])
         /\ IF ok
            THEN /\ pc' = "mirror_create"
                 /\ UNCHANGED loc
            ELSE /\ loc' = [loc EXCEPT !.err = "downloading"]
                 /\ pc' = "return"
    /\ UNCHANGED <<opts, args, exit, ran, session, jira, fs, thumbVars>>

\* os.Create(saveAsFull): the file exists and is empty
mirror_Create ==
    /\ pc = "mirror_create"
    /\ \E ok \in BOOLEAN :
         LET dir == loc.directoryName
             name == loc.urls[loc.uidx].saveAs
         IN /\ calls' = Append(calls, [op |-> "Create", dir |-> dir, name |-> name, ok |-> ok])
            /\ IF ok
               THEN /\ fs' = [fs EXCEPT !.files =
                                {f \in @ : ~(f.dir = dir /\ f.name = name)}
                                \cup {[dir |-> dir, name |-> name, complete |-> FALSE]}]
                    /\ pc' = "mirror_copy"
                    /\ UNCHANGED loc
               ELSE /\ loc' = [loc EXCEPT !.err = "create"]
                    /\ pc' = "return"
                    /\ UNCHANGED fs
    /\ UNCHANGED <<opts, args, exit, ran, session, jira, thumbVars>>

\* io.Copy(file, reader): on an error what was written stays
mirror_Copy ==
    /\ pc = "mirror_copy"
    /\ \E ok \in BOOLEAN :
         LET dir == loc.directoryName
             name == loc.urls[loc.uidx].saveAs
         IN /\ calls' = Append(calls, [op |-> "Copy", dir |-> dir, name |-> name, ok |-> ok])
            /\ IF ok
               THEN /\ fs' = [fs EXCEPT !.files =
                                {f \in @ : ~(f.dir = dir /\ f.name = name)}
                                \cup {[dir |-> dir, name |-> name, complete |-> TRUE]}]
                    /\ loc' = [loc EXCEPT !.uidx = @ + 1]
                    /\ pc' = "mirror_stat"
               ELSE /\ loc' = [loc EXCEPT !.err = "copy"]
                    /\ pc' = "return"
                    /\ UNCHANGED fs
    /\ UNCHANGED <<opts, args, exit, ran, session, jira, thumbVars>>

(***************************************************************************)
(* The program: main of jira-status.go started with any combination of its *)
(* flags, against a tracker with two issues and a download directory that  *)
(* already holds the directory of one of them.                             *)
(***************************************************************************)
FlagOpts ==
    {[DefaultOpts EXCEPT !.help = f[1], !.upkeep = f[2], !.mirror = f[3],
                         !.progress = f[4], !.pending = f[5],
                         !.deployedPortal = f[6], !.deployedApp = f[7],
                         !.search = s, !.pull = p, !.version = v] :
        f \in [1..7 -> BOOLEAN],
        s \in {<<>>, <<"a">>}, p \in {<<>>, <<"3">>}, v \in {<<>>, <<"1">>}}

OldDirectory == <<"F", "K", "-", "3", " ", "o", "l", "d">>

World ==
    [NoJira EXCEPT
       !.issues = Stories,
       !.status = [i \in Stories |-> "Ready for Deploy"],
       !.summary = [i \in Stories |->
                      IF i = 3 THEN <<"F", "i", "x", " ", "i", "t", "!">> ELSE <<"U", "p">>],
       !.description = [i \in Stories |->
                          IF i = 3 THEN <<"!", "a", "!", " ", DiagURL, "7">>
                          ELSE <<"o", "k">>],
       !.comments = [i \in Stories |->
                       IF i = 3 THEN <<[id |-> 1, body |-> <<"!", "b", "!">>],
                                       [id |-> 2, body |-> <<"o", "k">>]>>
                       ELSE <<>>],
       !.attachments = [i \in Stories |->
                          IF i = 3 THEN <<[id |-> <<"5">>, filename |-> <<"a", ".", "z", "i", "p">>]>>
                          ELSE <<[id |-> <<"6">>, filename |-> <<"a", ".", "p", "n", "g">>]>>],
       !.versions = <<[id |-> 10, name |-> <<"0", ".", "1">>, archived |-> FALSE, released |-> TRUE],
                      [id |-> 11, name |-> <<"1", ".", "0">>, archived |-> FALSE, released |-> FALSE],
                      [id |-> 12, name |-> <<"1", ".", "1">>, archived |-> FALSE, released |-> FALSE]>>,
       !.fixVersions = [i \in Stories |-> IF i = 3 THEN {11} ELSE {12}]]

Disk ==
    [base |-> TRUE, dirs |-> {OldDirectory},
     files |-> {[dir |-> OldDirectory, name |-> <<"7", ".", "z", "i", "p">>, complete |-> TRUE]}]

Init ==
    /\ pc = "main"
    /\ opts \in FlagOpts
    /\ args \in {<<>>, <<3, 4>>}
    /\ exit = "running"
    /\ ran = <<>>
    /\ calls = <<>>
    /\ session = FALSE
    /\ jira = World
    /\ fs = Disk
    /\ loc = Locals
    /\ IdleThumb

Next ==
    \/ main_Help
    \/ main_NewClient
    \/ main_Authenticate
    \/ main_Dispatch
    \/ displaySearch_Search
    \/ changeStatus_Search
    \/ changeStatus_Loop
    \/ findIssue_Search
    \/ changeIssueStatus_GetTransitions
    \/ changeIssueStatus_Scan
    \/ changeIssueStatus_Return
    \/ upkeep_Search
    \/ upkeep_Get
    \/ upkeep_Description
    \/ upkeep_Comment
    \/ reversion_findVersion
    \/ reversion_Get
    \/ reversion_Update
    \/ mirror_Search
    \/ mirror_MkdirBase
    \/ mirror_ReadDir
    \/ mirror_Get
    \/ mirror_MkdirIssue
    \/ mirror_Stat
    \/ mirror_Download
    \/ mirror_Create
    \/ mirror_Copy
    \/ MainReturn

Spec == Init /\ [][Next]_vars

(***************************************************************************)
(* Claims about main (checked under Spec).                                 *)
(***************************************************************************)
Priority ==
    <<"help", "upkeep", "mirror", "progress", "search", "pull", "pending",
      "deployed-portal", "deployed-app", "version">>

\* the flag of an action is given on the command line
FlagGiven(o, name) ==
    CASE name = "help" -> o.help
      [] name = "upkeep" -> o.upkeep
      [] name = "mirror" -> o.mirror
      [] name = "progress" -> o.progress
      [] name = "search" -> o.search # <<>>
      [] name = "pull" -> o.pull # <<>>
      [] name = "pending" -> o.pending
      [] name = "deployed-portal" -> o.deployedPortal
      [] name = "deployed-app" -> o.deployedApp
      [] name = "version" -> o.version # <<>>

\* the action the priority order selects
Selected(o) ==
    LET given == {k \in 1..Len(Priority) : FlagGiven(o, Priority[k])}
    IN IF given = {} THEN "listing"
       ELSE Priority[CHOOSE k \in given : \A j \in given : k <= j]

\* the steps an action procedure takes
StepsOf(action) ==
    CASE action = "upkeep" -> {"Search", "Get", "Update", "UpdateComment"}
      [] action = "mirror" ->
           {"Search", "MkdirAll", "ReadDir", "Get", "Stat", "Download", "Create", "Copy"}
      [] action \in {"progress", "search", "pending", "listing"} -> {"Search"}
      [] action \in {"pull", "deployed-portal", "deployed-app"} ->
           {"Search", "GetTransitions", "DoTransition"}
      [] action = "version" -> {"Project.Get", "Get", "Update"}
      [] OTHER -> {}

\* the search an action procedure issues
JqlOf(action) ==
    CASE action = "upkeep" -> "unresolved"
      [] action = "mirror" -> "components"
      [] action = "progress" -> "in-progress mine"
      [] action = "search" -> "summary"
      [] action = "pull" -> "key"
      [] action = "pending" -> "ready-for-deploy"
      [] action = "deployed-portal" -> "ready-for-deploy portal backend"
      [] action = "deployed-app" -> "ready-for-deploy mobile-app"
      [] action = "listing" -> "mine"
      [] OTHER -> "none"

\* the field an action procedure updates
FieldOf(action) ==
    CASE action = "upkeep" -> "description"
      [] action = "version" -> "fixVersions"
      [] OTHER -> "none"

\* the calls that belong to main itself
MainCalls == {"NewClient", "AcquireSessionCookie"}

\* positions in the log of the steps of action procedures
ActionCalls == {k \in 1..Len(calls) : calls[k].op \notin MainCalls}

Authenticated ==
    {j \in 1..Len(calls) :
        calls[j].op = "AcquireSessionCookie" /\ calls[j].res /\ ~calls[j].err}

\* C9: a step of an action procedure is taken, and an action is run, only
\* after a session-cookie authentication of this invocation that returned no
\* error and the result true; when the authentication fails the process
\* exits fatally at once and no action runs; with -help there is no client
\* creation, no authentication and no action.
C9_AuthenticationPrecedesDispatch ==
    /\ \A k \in ActionCalls : \E j \in Authenticated : j < k
    /\ (ran # <<>> /\ ran # <<"help">>) => Authenticated # {}
    /\ \A j \in 1..Len(calls) :
         (calls[j].op = "AcquireSessionCookie" /\ j \notin Authenticated) =>
             /\ j = Len(calls)
             /\ pc = "exit"
             /\ exit = "fatal"
             /\ ran = <<>>
    /\ opts.help =>
         /\ calls = <<>>
         /\ ran \in {<<>>, <<"help">>}
         /\ pc \in {"main", "exit"}

C9_Witness ==
    /\ pc = "exit"
    /\ exit = "fatal"
    /\ ran = <<>>
    /\ opts.upkeep
    /\ calls[Len(calls)].op = "AcquireSessionCookie"
    /\ ~calls[Len(calls)].res
    /\ ~calls[Len(calls)].err

\* C10: whenever a remote call or a file-system step of an action fails, it
\* is the last step of the invocation, and the invocation ends with the
\* error outcome (main's log.Fatalf), never with success.
C10_EveryFailureIsFatal ==
    \A k \in ActionCalls :
        ~calls[k].ok =>
            /\ k = Len(calls)
            /\ pc = "exit" => exit = "fatal"

(***************************************************************************)
(* The tool as a whole: main of jira-status.go with any flags, and the     *)
(* epic linking of the earlier main.                                       *)
(***************************************************************************)
\* displayIssues: the search for the unresolved epics; the rest prints what
\* the search returned
displayIssues_Search ==
    /\ pc = "displayIssues"
    /\ \E r \in EpicSearchResults :
         /\ calls' = Append(calls, [op |-> "Search", jql |-> "epic", ok |-> r.ok])
         /\ loc' = [loc EXCEPT !.issues = r.epics,
                               !.err = IF r.ok THEN "nil" ELSE "error getting issues"]
    /\ pc' = "return"
    /\ UNCHANGED <<opts, args, exit, ran, session, jira, fs, thumbVars>>

\* the tracker of the epic overview: the four issues, each story linked to
\* an epic
OverviewWorld ==
    [NoJira EXCEPT !.issues = Issues,
                   !.links = {[id |-> 1, inward |-> 1, outward |-> 3],
                              [id |-> 2, inward |-> 4, outward |-> 2]},
                   !.nextLinkId = 3]

\* the earlier main has reached its last branch, displayIssues
InitOverview ==
    /\ pc = "displayIssues"
    /\ opts = DefaultOpts
    /\ args = <<>>
    /\ exit = "running"
    /\ ran = <<"epics">>
    /\ calls = <<>>
    /\ session = TRUE
    /\ jira = OverviewWorld
    /\ fs = NoFs
    /\ loc = [Locals EXCEPT !.action = "epics"]
    /\ IdleThumb

InitTool == Init \/ InitLink \/ InitOverview

NextTool == Next \/ NextLink \/ displayIssues_Search

SpecTool == InitTool /\ [][NextTool]_vars

\* the calls that change the tracker
Mutations == {"Update", "UpdateComment", "DoTransition", "AddLink", "deleteLink"}

\* the calls that read the tracker, and main's own
Reads ==
    {"NewClient", "AcquireSessionCookie", "Search", "Get", "GetList", "GetTransitions",
     "Project.Get", "Download"}

\* the steps on the local file system
LocalSteps == {"MkdirAll", "ReadDir", "Stat", "Create", "Copy"}

\* the ids of the comments of each issue
CommentIds(j) == [i \in DOMAIN j.comments |->
                    [k \in 1..Len(j.comments[i]) |-> j.comments[i][k].id]]

\* the tracker j with the parts a call of the kind may change taken from n
Except(j, n, kind) ==
    CASE kind = "description" -> [j EXCEPT !.description = n.description]
      [] kind = "fixVersions" -> [j EXCEPT !.fixVersions = n.fixVersions]
      [] kind = "UpdateComment" -> [j EXCEPT !.comments = n.comments]
      [] kind = "DoTransition" -> [j EXCEPT !.status = n.status]
      [] kind \in {"AddLink", "deleteLink"} ->
           [j EXCEPT !.links = n.links, !.nextLinkId = n.nextLinkId]

\* C11 (step): a step never changes the set of issues, the versions or the
\* set of comments of the tracker; a step that changes the tracker is one
\* successful call that is an issue update (description or fix versions), a
\* comment body update, a status transition, a link creation or a link
\* deletion, and it changes only what that call is for; every call the tool
\* issues is one of those, a read, or a local file-system step.
C11_Step ==
    /\ jira'.issues = jira.issues
    /\ jira'.versions = jira.versions
    /\ CommentIds(jira') = CommentIds(jira)
    /\ jira' # jira =>
         /\ Len(calls') = Len(calls) + 1
         /\ LET c == calls'[Len(calls')]
            IN /\ c.ok
               /\ c.op \in Mutations
               /\ jira' = Except(jira, jira', IF c.op = "Update" THEN c.field ELSE c.op)
    /\ \A k \in 1..Len(calls') :
         /\ calls'[k].op \in Mutations \cup Reads \cup LocalSteps
         /\ calls'[k].op = "Update" => calls'[k].field \in {"description", "fixVersions"}

\* C11: remote entities are never created or deleted, links excepted
C11_NoEntityCreatedOrDeleted == [][C11_Step]_vars

C11_Witness ==
    /\ pc = "exit"
    /\ exit = "ok"
    /\ jira.description # World.description
    /\ jira.comments # World.comments
    /\ CommentIds(jira) = CommentIds(World)

(***************************************************************************)
(* The earlier main (part_004) with -upkeep and -daemon: the scan loop.    *)
(***************************************************************************)
\* the cascade of the earlier main
dispatch004(o) ==
    IF o.upkeep THEN "upkeep"
    ELSE IF Len(o.epic) > 0 THEN "epic"
    ELSE "epics"

main004_Dispatch ==
    /\ pc = "dispatch"
    /\ LET action == dispatch004(opts)
       IN /\ ran' = Append(ran, action)
          /\ loc' = [loc EXCEPT !.action = action]
          /\ pc' = CASE action = "upkeep" -> "upkeep"
                     [] action = "epic" -> "linkEpics"
                     [] action = "epics" -> "displayIssues"
    /\ UNCHANGED <<opts, args, exit, calls, session, jira, fs, thumbVars>>

\* the loop that ends after every scan
loopBreaksAlways(daemon) == TRUE

\* "if options.Daemon { time.Sleep(1 * time.Minute) } else { break }"
loopBreaks(daemon) == ~daemon

\* the action has returned to main: log.Fatalf on an error; after a scan the
\* loop sleeps or breaks; otherwise main returns
main004_Return ==
    /\ pc = "return"
    /\ IF loc.err # "nil"
       THEN exit' = "fatal" /\ pc' = "exit"
       ELSE IF loc.action = "upkeep" /\ ~loopBreaks(opts.daemon)
       THEN pc' = "sleep" /\ UNCHANGED exit
       ELSE exit' = "ok" /\ pc' = "exit"
    /\ UNCHANGED <<opts, args, ran, calls, session, jira, fs, loc, thumbVars>>

\* time.Sleep(1 * time.Minute) and the next turn of "for { ... }": upkeep is
\* called again, with fresh locals
main004_Sleep ==
    /\ pc = "sleep"
    /\ Len(ran) < MaxScans
    /\ calls' = Append(calls, [op |-> "Sleep", minutes |-> 1, ok |-> TRUE])
    /\ ran' = Append(ran, "upkeep")
    /\ loc' = [Locals EXCEPT !.action = "upkeep", !.build = loc.build]
    /\ pc' = "upkeep"
    /\ UNCHANGED <<opts, args, exit, session, jira, fs, thumbVars>>

\* descriptions and comment bodies on the tracker before the run
Bodies ==
    {<<"o", "k">>,
     <<"!", "a", "!">>,
     <<"!", "a", "|", "b", "!">>,
     <<"!", "a", "|", "b", "|", "a", "!">>,
     <<"!", "a", "!", " ", "!", "b", "!">>,
     <<"!", "a", "!", "\n", "!", "b", "!">>}

WorldWith(d, b) ==
    [World EXCEPT !.description = [i \in Stories |-> IF i = 3 THEN d ELSE <<"o", "k">>],
                  !.comments = [i \in Stories |->
                                  IF i = 3 THEN <<>> ELSE <<[id |-> 1, body |-> b]>>]]

InitDaemon ==
    /\ pc = "main"
    /\ \E daemon \in BOOLEAN : opts = [DefaultOpts EXCEPT !.upkeep = TRUE, !.daemon = daemon]
    /\ args = <<>>
    /\ exit = "running"
    /\ ran = <<>>
    /\ calls = <<>>
    /\ session = FALSE
    /\ \E d \in Bodies, b \in Bodies : jira = WorldWith(d, b)
    /\ fs = NoFs
    /\ loc = [Locals EXCEPT !.build = "part_004"]
    /\ IdleThumb

NextDaemon ==
    \/ main_NewClient
    \/ main_Authenticate
    \/ main004_Dispatch
    \/ upkeep_Search
    \/ upkeep_Get
    \/ upkeep_Description
    \/ upkeep_Comment
    \/ main004_Return
    \/ main004_Sleep

SpecDaemon == InitDaemon /\ [][NextDaemon]_vars

(***************************************************************************)
(* Claims about the scan loop (checked under SpecDaemon).                  *)
(***************************************************************************)
\* positions in the log of the searches that start a scan, and of the sleeps
ScanStarts == {k \in 1..Len(calls) : calls[k].op = "Search"}
Sleeps == {k \in 1..Len(calls) : calls[k].op = "Sleep"}

\* C12: without -daemon one scan runs and the process ends; with -daemon
\* every scan but the first starts right after a sleep of one minute that
\* follows an earlier scan which made no failing call, and the process ends
\* only with the error of a scan (log.Fatalf), never by itself; a scan
\* starts only when the one before has returned.
C12_DaemonLoop ==
    /\ ~opts.daemon =>
         /\ Len(ran) <= 1
         /\ Sleeps = {}
         /\ pc # "sleep"
         /\ (pc = "exit" /\ session) => Len(ran) = 1
    /\ opts.daemon =>
         /\ (pc = "exit" /\ Len(ran) >= 1) => (exit = "fatal" /\ loc.err # "nil")
         /\ \A k \in Sleeps : calls[k].minutes = 1
         /\ Cardinality(Sleeps) = Len(ran) - (IF ran = <<>> THEN 0 ELSE 1)
         /\ \A k \in ScanStarts :
              (\E j \in ScanStarts : j < k) => (k - 1) \in Sleeps
         /\ \A k \in Sleeps :
              /\ \E j \in ScanStarts : j < k
              /\ \A j \in 1..(k - 1) : calls[j].ok
              /\ k < Len(calls) => (k + 1) \in ScanStarts
    /\ Cardinality(ScanStarts) \in {Len(ran), Len(ran) - 1}
    /\ Cardinality(ScanStarts) = Len(ran) - 1 => pc = "upkeep"

C12_Witness ==
    /\ opts.daemon
    /\ pc = "exit"
    /\ exit = "fatal"
    /\ Len(ran) = 2
    /\ Cardinality(Sleeps) = 1
    /\ \E k \in 1..Len(calls) : calls[k].op = "UpdateComment" /\ calls[k].ok

(***************************************************************************)
(* makeDirectoryName applied to any key and summary.                       *)
(***************************************************************************)
MaxSummary == 4   \* longest summary given to makeDirectoryName

SummaryChars == {"A", "b", " ", "\t", "-", "_", "!", ".", VTab}

Summaries == UNION {[1..n -> SummaryChars] : n \in 0..MaxSummary}

InitDir ==
    /\ pc = "dir_call"
    /\ opts = NoOpts
    /\ args = <<>>
    /\ exit = "running"
    /\ ran = <<>>
    /\ calls = <<>>
    /\ session = FALSE
    /\ jira = NoJira
    /\ fs = NoFs
    /\ \E n \in {3, 12} : loc = [Locals EXCEPT !.issue = n]
    /\ body \in Summaries
    /\ newBody = <<>>
    /\ thumbErr = "none"

CallMakeDirectoryName ==
    /\ pc = "dir_call"
    /\ newBody' = makeDirectoryName(KeyOf(loc.issue), body)
    /\ pc' = "dir_done"
    /\ UNCHANGED <<body, thumbErr, progVars>>

NextDir == CallMakeDirectoryName

SpecDir == InitDir /\ [][NextDir]_vars

(***************************************************************************)
(* Claims about makeDirectoryName (checked under SpecDir).                 *)
(***************************************************************************)
Removed == {":", "\"", "?", "'", "+", ".", Backtick, "!", "(", ")"}

NotRemoved(c) == c \notin Removed

\* key_summary with the summary trimmed, lower-cased, without the removed
\* characters and with "-" and "_" turned into blanks
Prepared(key, summary) ==
    LET kept == SelectSeq(ToLower(key \o <<"_">> \o TrimSpace(summary)), NotRemoved)
    IN [k \in 1..Len(kept) |-> IF kept[k] \in {"-", "_"} THEN " " ELSE kept[k]]

\* the number of maximal runs of characters of the set W in s
Runs(s, W) ==
    Cardinality({k \in 1..Len(s) : s[k] \in W /\ (k = 1 \/ s[k - 1] \notin W)})

\* r is s with every maximal run of characters of W replaced by one "_"
\* (s holds no "_" of its own)
RunsReplaced(r, s, W) ==
    /\ SelectSeq(r, LAMBDA c : c # "_") = SelectSeq(s, LAMBDA c : c \notin W)
    /\ Cardinality({k \in 1..Len(r) : r[k] = "_"}) = Runs(s, W)
    /\ \A k \in 1..(Len(r) - 1) : ~(r[k] = "_" /\ r[k + 1] = "_")
    /\ (r # <<>> /\ s # <<>>) => ((r[1] = "_") <=> (s[1] \in W))
    /\ (r # <<>> /\ s # <<>>) => ((r[Len(r)] = "_") <=> (s[Len(s)] \in W))

\* the name is the prepared text with the runs of W replaced, and holds no
\* character of W, no upper-case letter, no "-", no removed character and no
\* two adjacent "_"
Sanitized(W) ==
    /\ RunsReplaced(newBody, Prepared(KeyOf(loc.issue), body), W)
    /\ \A k \in 1..Len(newBody) :
         /\ newBody[k] \notin W
         /\ newBody[k] \notin Removed
         /\ newBody[k] # "-"
         /\ ToLowerChar(newBody[k]) = newBody[k]

\* C13 as stated: every run of white space is replaced by one "_" and the
\* name holds no white space, no upper-case letter, no "-", no removed
\* character and no two adjacent "_".
C13_RunsOfWhiteSpaceReplaced ==
    pc = "dir_done" => Sanitized({" ", "\t", "\n", VTab})

\* C13 amended: the white space that is replaced, and that the name is free
\* of, is the class \s of the pattern (blank, tab, newline, form feed,
\* carriage return); other white space inside the summary, such as a vertical
\* tab, stays.
C13_RunsOfRegexpSpaceReplaced ==
    pc = "dir_done" => Sanitized({" ", "\t", "\n"})

C13_Witness ==
    /\ pc = "dir_done"
    /\ body = <<"A", "-", " ", "!">>
    /\ newBody = <<"f", "k", "_", "3", "_", "a", "_">>

(***************************************************************************)
(* reversion against any small list of project versions.                   *)
(***************************************************************************)
MaxVersions == 2   \* most versions of the project

VersionNames == {<<"1", ".", "0">>, <<"0", ".", "2">>}

\* project.Versions: the id of a version is 10 plus its position
ProjectVersions ==
    {[k \in 1..Len(q) |-> [id |-> 10 + k, name |-> q[k].name,
                           archived |-> q[k].archived, released |-> q[k].released]] :
        q \in SeqsUpTo([name : VersionNames, archived : BOOLEAN, released : BOOLEAN],
                       MaxVersions)}

InitVersion ==
    /\ pc = "reversion"
    /\ \E v \in {<<"1">>, <<"2">>} : opts = [DefaultOpts EXCEPT !.version = v]
    /\ args \in SeqsUpTo(Stories, MaxArgs)
    /\ exit = "running"
    /\ ran = <<"version">>
    /\ calls = <<>>
    /\ session = TRUE
    /\ \E vs \in ProjectVersions, f3 \in {{}, {11}, {12}}, f4 \in {{11}, {12}} :
         jira = [World EXCEPT !.versions = vs,
                              !.fixVersions = [i \in Stories |-> IF i = 3 THEN f3 ELSE f4]]
    /\ fs = NoFs
    /\ loc = [Locals EXCEPT !.action = "version"]
    /\ IdleThumb

NextVersion ==
    \/ reversion_findVersion
    \/ reversion_Get
    \/ reversion_Update
    \/ MainReturn

SpecVersion == InitVersion /\ [][NextVersion]_vars

(***************************************************************************)
(* Claims about findVersion and reversion (checked under SpecVersion).     *)
(***************************************************************************)
\* positions of the project's versions that are neither archived nor
\* released and whose name contains the search text
Eligible ==
    {k \in 1..Len(jira.versions) :
        /\ ~jira.versions[k].archived
        /\ ~jira.versions[k].released
        /\ Contains(jira.versions[k].name, opts.version)}

FirstEligible == CHOOSE k \in Eligible : \A j \in Eligible : k <= j

\* the project was fetched
ProjectFetched == calls # <<>> /\ calls[1].op = "Project.Get" /\ calls[1].ok

\* C14: once the project is fetched, the version reversion works with is the
\* first one in the project's order that is neither archived nor released
\* and whose name contains the search text; when there is none findVersion
\* returns the error and reversion makes no further call, so no issue is
\* updated.
C14_FirstOpenVersion ==
    /\ loc.version.id # 0 =>
         /\ ProjectFetched
         /\ Eligible # {}
         /\ loc.version.id = jira.versions[FirstEligible].id
    /\ (ProjectFetched /\ Eligible # {}) => loc.version.id = jira.versions[FirstEligible].id
    /\ (ProjectFetched /\ Eligible = {}) =>
         /\ loc.err = "no such version in project"
         /\ pc \in {"return", "exit"}
         /\ pc = "exit" => exit = "fatal"
         /\ Len(calls) = 1
    /\ \A k \in 1..Len(calls) : calls[k].op = "Update" => Eligible # {}

C14_Witness ==
    /\ pc = "exit"
    /\ exit = "ok"
    /\ Len(jira.versions) = 2
    /\ jira.versions[1].released
    /\ Contains(jira.versions[1].name, opts.version)
    /\ loc.version.id = 12
    /\ \E k \in 1..Len(calls) : calls[k].op = "Update" /\ calls[k].ok

\* positions in the log of the issues fetched
Gets == {k \in 1..Len(calls) : calls[k].op = "Get"}

\* the number of issues fetched up to position k of the log
GetsUpTo(k) == Cardinality({j \in Gets : j <= k})

\* C15: the issues are fetched in the order of the command line; an issue
\* whose fix versions include the target version gets no update, any other
\* fetched issue gets exactly one update, which sets its fix versions to the
\* target version alone; after reversion returned without error every
\* listed issue has the target version among its fix versions.
C15_MovesToTargetVersion ==
    /\ \A k \in Gets : GetsUpTo(k) <= Len(args) /\ calls[k].key = args[GetsUpTo(k)]
    /\ \A k \in Gets :
         calls[k].ok =>
            IF loc.version.id \in calls[k].fixVersions
            THEN k < Len(calls) => calls[k + 1].op # "Update"
            ELSE /\ k = Len(calls) => pc = "reversion_update"
                 /\ k < Len(calls) =>
                      /\ calls[k + 1].op = "Update"
                      /\ calls[k + 1].key = calls[k].key
                      /\ calls[k + 1].field = "fixVersions"
                      /\ calls[k + 1].value = {loc.version.id}
    /\ \A k \in 1..Len(calls) :
         calls[k].op = "Update" =>
            /\ (k - 1) \in Gets
            /\ calls[k - 1].ok
            /\ calls[k].ok => jira.fixVersions[calls[k].key] = {loc.version.id}
    /\ (pc = "exit" /\ exit = "ok") =>
         /\ Cardinality(Gets) = Len(args)
         /\ \A a \in 1..Len(args) : loc.version.id \in jira.fixVersions[args[a]]

C15_Witness ==
    /\ pc = "exit"
    /\ exit = "ok"
    /\ Len(args) = 2
    /\ args[1] # args[2]
    /\ Cardinality({k \in 1..Len(calls) : calls[k].op = "Update"}) = 1
    /\ \E k \in Gets : calls[k].ok /\ loc.version.id \in calls[k].fixVersions

(***************************************************************************)
(* Claims about the read-only actions (checked under SpecTool).            *)
(***************************************************************************)
ReadOnlyActions == {"listing", "search", "progress", "pending", "epics"}

\* C16: when the action is the default listing, -search, -progress,
\* -pending or the epic overview, the only call of the action is one search,
\* no update, transition, comment update, link creation or link deletion is
\* issued, and the tracker stays as it was, whatever the search returns.
C16_ReadOnlyActions ==
    (ran # <<>> /\ ran[1] \in ReadOnlyActions) =>
        /\ \A k \in 1..Len(calls) :
             calls[k].op \notin MainCalls =>
                /\ calls[k].op = "Search"
                /\ k = Len(calls)
                /\ pc \in {"return", "exit"}
        /\ jira = IF ran[1] = "epics" THEN OverviewWorld ELSE World

C16_Witness ==
    /\ pc = "exit"
    /\ exit = "ok"
    /\ ran = <<"pending">>
    /\ opts.deployedPortal
    /\ opts.version # <<>>
    /\ Len(loc.issues) = 2
    /\ calls[Len(calls)].op = "Search"

(***************************************************************************)
(* Claims about the batch actions (checked under Spec).                    *)
(***************************************************************************)
BatchActions == {"deployed-portal", "deployed-app", "version", "upkeep"}

\* the issue a call is for, 0 when it is for none
IssueOfCall(c) ==
    IF c.op \in {"GetTransitions", "DoTransition"} THEN c.issue
    ELSE IF c.op \in {"Get", "Update", "UpdateComment"} THEN c.key
    ELSE 0

\* the issues of the batch up to the one being processed
Reached ==
    IF loc.action = "version"
    THEN {args[n] : n \in {m \in 1..Len(args) : m <= loc.argIdx}}
    ELSE {loc.issues[n] : n \in {m \in 1..Len(loc.issues) : m <= loc.idx}}

\* what a successful mutation wrote is on the tracker
InPlace(c) ==
    CASE c.op = "DoTransition" -> jira.status[c.issue] = c.to
      [] c.op = "Update" /\ c.field = "description" -> jira.description[c.key] = c.value
      [] c.op = "Update" /\ c.field = "fixVersions" -> jira.fixVersions[c.key] = c.value
      [] c.op = "UpdateComment" ->
           \E n \in 1..Len(jira.comments[c.key]) :
              jira.comments[c.key][n] = [id |-> c.id, body |-> c.value]
      [] OTHER -> TRUE

\* C17: in changeStatus, reversion and upkeep a failed call is the last call
\* of the invocation (it is not repeated and the issues after it get no
\* call), every call is for an issue of the list up to the one being
\* processed, and what the successful calls before it wrote stays on the
\* tracker.
C17_NoRecoveryInBatch ==
    (ran # <<>> /\ ran[1] \in BatchActions) =>
        /\ \A k \in ActionCalls :
             /\ ~calls[k].ok => k = Len(calls)
             /\ IssueOfCall(calls[k]) # 0 => IssueOfCall(calls[k]) \in Reached
             /\ calls[k].ok => InPlace(calls[k])
        /\ (pc = "exit" /\ loc.err # "nil") => exit = "fatal"

C17_Witness ==
    /\ pc = "exit"
    /\ exit = "fatal"
    /\ ran = <<"deployed-app">>
    /\ Len(loc.issues) = 2
    /\ loc.idx = 2
    /\ jira.status[loc.issues[1]] = "Awaiting QA"
    /\ jira.status[loc.issues[2]] = "Ready for Deploy"
    /\ calls[Len(calls)].op = "DoTransition"
    /\ ~calls[Len(calls)].ok

(***************************************************************************)
(* Claims about upkeep (checked under SpecDaemon).                         *)
(***************************************************************************)
\* makeAllImagesThumbnails of the build that runs
Rewritten(s) ==
    IF loc.build = "part_004" THEN makeAllImagesThumbnails004(s)
    ELSE makeAllImagesThumbnails(s)

\* position in the log of the search of the scan that runs, 0 before the first
ScanStart == IF ScanStarts = {} THEN 0 ELSE CHOOSE k \in ScanStarts : \A j \in ScanStarts : j <= k

\* positions in the log of the calls of the running scan for issue i
ScanCalls(op, i) ==
    {k \in 1..Len(calls) : k > ScanStart /\ calls[k].op = op /\ calls[k].key = i}

\* the comments Issue.Get returned for issue i in the running scan
FetchedComments(i) ==
    UNION {{calls[g].comments[m] : m \in 1..Len(calls[g].comments)} : g \in ScanCalls("Get", i)}

\* C18: within a scan, an issue update is issued for an issue only if
\* makeAllImagesThumbnails changes the description the search returned, it
\* carries the description alone and its text is the rewritten text; a
\* comment update is issued only for a fetched comment whose body the
\* function changes, with the rewritten body; once an issue has been
\* processed every such description and comment has had its one update; an
\* issue that needs no rewrite gets no write.
C18_WritesOnlyWhatChanged ==
    (ScanStart > 0 /\ calls[ScanStart].ok /\ pc # "upkeep") =>
        \A n \in 1..Len(loc.issues) :
            LET i == loc.issues[n]
                d == loc.snapshot[n]
                ups == ScanCalls("Update", i)
                cups == ScanCalls("UpdateComment", i)
            IN /\ Cardinality(ups) <= 1
               /\ \A k \in ups :
                    /\ calls[k].field = "description"
                    /\ calls[k].value = Rewritten(d)
                    /\ Rewritten(d) # d
               /\ \A k \in cups :
                    /\ \E c \in FetchedComments(i) :
                         /\ c.id = calls[k].id
                         /\ Rewritten(c.body) # c.body
                         /\ calls[k].value = Rewritten(c.body)
                    /\ \A j \in cups : calls[j].id = calls[k].id => j = k
               /\ n < loc.idx =>
                    /\ Cardinality(ScanCalls("Get", i)) = 1
                    /\ Rewritten(d) # d => ups # {}
                    /\ \A c \in FetchedComments(i) :
                         Rewritten(c.body) # c.body => \E k \in cups : calls[k].id = c.id
               /\ n > loc.idx => (ups = {} /\ cups = {} /\ ScanCalls("Get", i) = {})

C18_Witness ==
    /\ pc = "exit"
    /\ exit = "ok"
    /\ Len(loc.issues) = 2
    /\ \E k \in ScanCalls("Update", 3) : calls[k].ok
    /\ ScanCalls("UpdateComment", 4) = {}
    /\ ScanCalls("Get", 4) # {}

(***************************************************************************)
(* Claims about repeated rewriting.                                        *)
(***************************************************************************)
\* C19 (checked under SpecThumb): applying makeAllImagesThumbnails to its
\* own output gives that output again.
C19_Idempotent ==
    pc = "thumb_done" => makeAllImagesThumbnails(newBody) = newBody

\* positions in the log of the writes of upkeep
Writes == {k \in 1..Len(calls) : calls[k].op \in {"Update", "UpdateComment"}}

\* issue i was fetched by a scan that completed without error before
\* position k of the log (a sleep follows only such a scan)
ScannedBefore(i, k) ==
    \E g \in 1..Len(calls), z \in Sleeps :
        /\ g < z /\ z < k
        /\ calls[g].op = "Get" /\ calls[g].ok /\ calls[g].key = i

\* C20 (checked under SpecDaemon, where only upkeep changes the tracker):
\* after a scan that completed without error, no later scan issues an issue
\* update or a comment update for an issue that scan processed.
C20_UpkeepConverges ==
    \A k \in Writes : ~ScannedBefore(calls[k].key, k)

(***************************************************************************)
(* Claims about what linkEpics leaves behind (checked under SpecLink).     *)
(***************************************************************************)
\* issue k has a link whose other issue is an Epic
HasEpic(links, k) ==
    \E l \in links :
        /\ k \in {l.inward, l.outward}
        /\ \E o \in {l.inward, l.outward} \ {k} : IssueTypeName(o) = "Epic"

\* the a-th issue was linked to an Epic when linkEpics fetched it
HadEpic(a) ==
    Fetched(a) /\ \E v \in LinksSeen(a) : IssueTypeName(OtherIssue(v)) = "Epic"

\* linkEpics has ended, with or without an error
linkEpicsEnded == pc \in {"return", "exit"}

\* C21: when the target is an Epic, an issue that was linked to an Epic
\* when linkEpics fetched it is linked to an Epic when linkEpics has ended,
\* whatever the outcome.
C21_NeverWithoutEpic ==
    (linkEpicsEnded /\ loc.desiredKey \in Epics) =>
        \A a \in 1..Len(args) : HadEpic(a) => HasEpic(jira.links, args[a])

(***************************************************************************)
(* Claims about -pull (checked under SpecStatus).                          *)
(***************************************************************************)
\* positions in the log of the calls of kind op
CallsOf(op) == {k \in 1..Len(calls) : calls[k].op = op}

\* the -pull invocation has ended after its key search was answered
PullEnded ==
    /\ pc = "exit"
    /\ ran = <<"pull">>
    /\ \E k \in CallsOf("Search") : calls[k].ok

\* C22: after -pull, when the key search returned exactly one issue, every
\* transition call is for that issue and to "In Progress", there is at most
\* one, and the invocation succeeded exactly when that call was made and
\* succeeded, the issue then being "In Progress" and no other issue changed;
\* when the search returned no issue or several, the invocation failed with
\* "unable to find issue" and no transition call was made.
C22_PullTransitionsTheIssueFound ==
    PullEnded =>
        /\ Cardinality(CallsOf("Search")) = 1
        /\ \A k \in CallsOf("Search") : calls[k].jql = "key"
        /\ IF Len(loc.issues) = 1
           THEN /\ \A k \in CallsOf("GetTransitions") : calls[k].issue = loc.issues[1]
                /\ Cardinality(CallsOf("GetTransitions")) = 1
                /\ Cardinality(CallsOf("DoTransition")) <= 1
                /\ \A k \in CallsOf("DoTransition") :
                     /\ calls[k].issue = loc.issues[1]
                     /\ calls[k].to = "In Progress"
                /\ exit = "ok" <=> \E k \in CallsOf("DoTransition") : calls[k].ok
                /\ \A i \in Issues :
                     jira.status[i] =
                        IF i = loc.issues[1] /\ exit = "ok"
                        THEN "In Progress" ELSE "Ready for Deploy"
           ELSE /\ exit = "fatal"
                /\ loc.err = "unable to find issue"
                /\ CallsOf("GetTransitions") = {}
                /\ CallsOf("DoTransition") = {}
                /\ \A i \in Issues : jira.status[i] = "Ready for Deploy"

\* -pull succeeded on the one issue found, whose second available transition
\* was the one to "In Progress"
C22_Witness ==
    /\ PullEnded
    /\ exit = "ok"
    /\ Len(loc.issues) = 1
    /\ Len(loc.transitions) = 2
    /\ loc.transitions[1].to # "In Progress"
    /\ jira.status[loc.issues[1]] = "In Progress"

\* -pull failed because the key search returned two issues
C22_WitnessSeveral ==
    /\ PullEnded
    /\ exit = "fatal"
    /\ Len(loc.issues) = 2

(***************************************************************************)
(* Claims about findEpic (checked under SpecLink).                         *)
(***************************************************************************)
\* findEpic has returned to linkEpics or ended the process
findEpicDone == pc # "linkEpics"

\* positions in the log of the epic summary search
EpicSearches == {k \in 1..Len(calls) : calls[k].op = "Search"}

\* positions in the log of the link deletions and additions
LinkChanges == {k \in 1..Len(calls) : calls[k].op \in {"deleteLink", "AddLink"}}

\* C23: after findEpic, when the epic argument parses as an integer n the
\* target is the key with number n and no search was issued; otherwise one
\* summary search was issued, the target is the first epic it returned, and
\* when it returned no epic linkEpics returns an error having deleted and
\* added no link.
C23_findEpic ==
    findEpicDone =>
        IF Atoi(opts.epic).ok
        THEN /\ loc.desiredKey = Atoi(opts.epic).n
             /\ EpicSearches = {}
        ELSE /\ Cardinality(EpicSearches) = 1
             /\ \A k \in EpicSearches :
                  /\ k = 1
                  /\ calls[k].jql = "epic"
                  /\ (calls[k].ok /\ calls[k].epics # <<>>) =>
                        loc.desiredKey = calls[k].epics[1]
                  /\ (calls[k].ok /\ calls[k].epics = <<>>) =>
                        /\ loc.err = "unable to find Epic"
                        /\ pc \in {"return", "exit"}
                        /\ pc = "exit" => exit = "fatal"
                        /\ LinkChanges = {}
                        /\ Len(calls) = 1

\* the summary search returned two epics and linkEpics went on to move an
\* issue to the first of them
C23_Witness ==
    /\ ~Atoi(opts.epic).ok
    /\ \E k \in EpicSearches : calls[k].ok /\ Len(calls[k].epics) = 2
    /\ \E k \in LinkChanges : calls[k].op = "AddLink" /\ calls[k].ok

\* the epic argument was a number and linkEpics went on to move an issue
C23_WitnessNumber ==
    /\ Atoi(opts.epic).ok
    /\ \E k \in LinkChanges : calls[k].op = "deleteLink" /\ calls[k].ok

\* the summary search returned no epic
C23_WitnessNone ==
    /\ pc = "exit"
    /\ \E k \in EpicSearches : calls[k].ok /\ calls[k].epics = <<>>

(***************************************************************************)
(* mirror run on its own against a tracker with the issues FK-1 and FK-10  *)
(* and an empty download directory; the description, comments and          *)
(* attachments of FK-1 are one of a few samples.                           *)
(***************************************************************************)
MirrorIssues == {1, 10}

\* description, comments and attachments of FK-1
Contents ==
    {[description |-> <<"s", " ", DiagURL, "7", "\n", DiagURLSlash, "8">>,
      comments |-> <<[id |-> 1, body |-> <<DiagURL, "9", " ", DiagURL>>]>>,
      attachments |-> <<>>],
     [description |-> <<"o", "k">>,
      comments |-> <<[id |-> 1, body |-> <<"x">>],
                     [id |-> 2, body |-> <<DiagURLSlash, "7", "8">>]>>,
      attachments |-> <<[id |-> <<"5">>, filename |-> <<"a", ".", "z", "i", "p">>],
                        [id |-> <<"6">>, filename |-> <<"a", ".", "z", "i", "p", ".", "p", "n", "g">>],
                        [id |-> <<"7">>, filename |-> <<"b", ".", "t", "x", "t">>]>>],
     [description |-> <<DiagURL>>,
      comments |-> <<>>,
      attachments |-> <<[id |-> <<"5">>, filename |-> <<"z", "i", "p">>],
                        [id |-> <<"6">>, filename |-> <<".", "b", "i", "n">>],
                        [id |-> <<"7">>, filename |-> <<"A", ".", "Z", "I", "P">>]>>],
     [description |-> <<DiagURL, "7">>,
      comments |-> <<[id |-> 1, body |-> <<DiagURL, "7">>]>>,
      attachments |-> <<[id |-> <<"5">>, filename |-> <<"a", ".", "b", "i", "n">>]>>]}

\* the tracker with FK-1 holding the sample c and FK-10 one text attachment
MirrorWorld(c) ==
    [NoJira EXCEPT
       !.issues = MirrorIssues,
       !.summary = [i \in MirrorIssues |-> IF i = 1 THEN <<"U", "p">> ELSE <<"F", "i", "x">>],
       !.description = [i \in MirrorIssues |-> IF i = 1 THEN c.description ELSE <<"o", "k">>],
       !.comments = [i \in MirrorIssues |-> IF i = 1 THEN c.comments ELSE <<>>],
       !.attachments = [i \in MirrorIssues |->
                          IF i = 1 THEN c.attachments
                          ELSE <<[id |-> <<"6">>, filename |-> <<"a", ".", "t", "x", "t">>]>>]]

InitMirror ==
    /\ pc = "mirror"
    /\ opts = [DefaultOpts EXCEPT !.mirror = TRUE]
    /\ args = <<>>
    /\ exit = "running"
    /\ ran = <<"mirror">>
    /\ calls = <<>>
    /\ session = TRUE
    /\ \E c \in Contents : jira = MirrorWorld(c)
    /\ fs = NoFs
    /\ loc = [Locals EXCEPT !.action = "mirror"]
    /\ IdleThumb

NextMirror ==
    \/ mirror_Search
    \/ mirror_MkdirBase
    \/ mirror_ReadDir
    \/ mirror_Get
    \/ mirror_MkdirIssue
    \/ mirror_Stat
    \/ mirror_Download
    \/ mirror_Create
    \/ mirror_Copy
    \/ MainReturn

SpecMirror == InitMirror /\ [][NextMirror]_vars

(***************************************************************************)
(* Claims about the items mirror selects (checked under SpecMirror).       *)
(***************************************************************************)
IsDiagURL(text, p) == text[p] \in {DiagURL, DiagURLSlash}

NonBlank(text, p) == p <= Len(text) /\ text[p] \notin {" ", "\t", "\n"}

\* the positions of text where a diagnostics link starts: the address
\* followed by at least one non-blank character, and not itself part of the
\* id of a link that starts further left
LinkStarts(text) ==
    {p \in 1..Len(text) :
        /\ IsDiagURL(text, p)
        /\ NonBlank(text, p + 1)
        /\ ~\E q \in 1..(p - 1) :
              IsDiagURL(text, q) /\ \A r \in (q + 1)..p : NonBlank(text, r)}

\* the id of the link that starts at p: the non-blank characters after the address
LinkId(text, p) ==
    LET e == CHOOSE k \in (p + 1)..Len(text) :
                /\ \A r \in (p + 1)..k : NonBlank(text, r)
                /\ ~NonBlank(text, k + 1)
    IN SubSeq(text, p + 1, e)

\* the elements of a set of numbers in increasing order
RECURSIVE Ascending(_)
Ascending(S) ==
    IF S = {} THEN <<>>
    ELSE LET m == CHOOSE x \in S : \A y \in S : x <= y
         IN <<m>> \o Ascending(S \ {m})

\* the file names `<id>.zip` of the links of a text, in order
LinkFiles(text) ==
    LET starts == Ascending(LinkStarts(text))
    IN [k \in 1..Len(starts) |-> LinkId(text, starts[k]) \o <<".", "z", "i", "p">>]

RECURSIVE CommentLinkFiles(_)
CommentLinkFiles(comments) ==
    IF comments = <<>> THEN <<>>
    ELSE LinkFiles(Head(comments).body) \o CommentLinkFiles(Tail(comments))

\* the filename ends in .txt, .zip or .bin
MirroredEnding(name) ==
    /\ Len(name) >= 4
    /\ SubSeq(name, Len(name) - 3, Len(name)) \in
         {<<".", "t", "x", "t">>, <<".", "z", "i", "p">>, <<".", "b", "i", "n">>}

\* the ids of the attachments with such a filename, in order
RECURSIVE MirroredAttachments(_)
MirroredAttachments(attachments) ==
    IF attachments = <<>> THEN <<>>
    ELSE (IF MirroredEnding(Head(attachments).filename)
          THEN <<Head(attachments).id>> ELSE <<>>)
         \o MirroredAttachments(Tail(attachments))

\* mirror has fetched an issue and built its list of items
ItemsBuilt ==
    pc \in {"mirror_mkdir", "mirror_stat", "mirror_download", "mirror_create", "mirror_copy"}

\* the part of the list from the links, and the part from the attachments
LinkItems == SelectSeq(loc.urls, LAMBDA u : u.kind = "diagnostics")
AttachmentItems == SelectSeq(loc.urls, LAMBDA u : u.kind = "attachment")

\* C26: the items mirror considers for an issue are, in this order, one per
\* diagnostics link of the description, one per diagnostics link of each
\* comment body, each saved as `<id>.zip`, and one per attachment whose
\* filename ends in .txt, .zip or .bin; every file check and every download
\* is for an item of that list, so no other attachment is downloaded.
C26_MirrorSelectsItems ==
    /\ ItemsBuilt =>
         LET i == loc.issue
             files == LinkFiles(jira.description[i]) \o CommentLinkFiles(jira.comments[i])
             ids == MirroredAttachments(jira.attachments[i])
         IN /\ Len(loc.urls) = Len(files) + Len(ids)
            /\ \A k \in 1..Len(files) :
                 /\ loc.urls[k].kind = "diagnostics"
                 /\ loc.urls[k].saveAs = files[k]
            /\ \A k \in 1..Len(ids) :
                 /\ loc.urls[Len(files) + k].kind = "attachment"
                 /\ loc.urls[Len(files) + k].id = ids[k]
    /\ \A k \in 1..Len(calls) :
         calls[k].op = "Download" =>
            \E i \in MirrorIssues :
               IF calls[k].kind = "attachment"
               THEN \E n \in 1..Len(jira.attachments[i]) :
                      /\ jira.attachments[i][n].id = calls[k].id
                      /\ MirroredEnding(jira.attachments[i][n].filename)
               ELSE \E f \in {LinkFiles(jira.description[i])[n] :
                                 n \in 1..Len(LinkFiles(jira.description[i]))}
                          \cup {CommentLinkFiles(jira.comments[i])[n] :
                                 n \in 1..Len(CommentLinkFiles(jira.comments[i]))} :
                      f = calls[k].id \o <<".", "z", "i", "p">>
    /\ (ItemsBuilt /\ pc # "mirror_mkdir") =>
         \A k \in 1..Len(calls) :
            (calls[k].op = "Stat" /\ calls[k].dir = loc.directoryName) =>
               \E n \in 1..Len(loc.urls) : loc.urls[n].saveAs = calls[k].name

\* a run over an issue with a link in a comment, two mirrored attachments
\* and one that is not, all three items downloaded
C26_Witness ==
    /\ pc = "exit"
    /\ exit = "ok"
    /\ loc.issue = 1
    /\ Len(LinkItems) = 1
    /\ Len(AttachmentItems) = 2
    /\ Len(jira.attachments[1]) = 3
    /\ Cardinality({k \in 1..Len(calls) : calls[k].op = "Copy" /\ calls[k].ok}) >= 3

(***************************************************************************)
(* mirror run several times in a row: the tool is started again after it   *)
(* has ended, against the directory tree the runs before left; in between  *)
(* the summary of an issue may have been edited on the tracker.            *)
(***************************************************************************)
MaxRuns == 2   \* most runs in a row that are followed

\* FK-1 with one diagnostics link and no attachment
OneLink == [description |-> <<DiagURL, "7">>, comments |-> <<>>, attachments |-> <<>>]

EditedSummary == <<"D", "o">>

InitRemirror ==
    /\ pc = "main"
    /\ opts = [DefaultOpts EXCEPT !.mirror = TRUE]
    /\ args = <<>>
    /\ exit = "running"
    /\ ran = <<>>
    /\ calls = <<>>
    /\ session = FALSE
    /\ jira = MirrorWorld(OneLink)
    /\ fs = NoFs
    /\ loc = Locals
    /\ IdleThumb

\* positions in the log where the tool was started again
Restarts == {k \in 1..Len(calls) : calls[k].op = "Restart"}

\* between two runs somebody edits the summary of an issue on the tracker;
\* the log notes it
tracker_EditSummary ==
    /\ pc = "exit"
    /\ Cardinality(Restarts) + 1 < MaxRuns
    /\ calls[Len(calls)].op # "Edit"
    /\ \E i \in MirrorIssues :
         /\ jira.summary[i] # EditedSummary
         /\ jira' = [jira EXCEPT !.summary[i] = EditedSummary]
         /\ calls' = Append(calls, [op |-> "Edit", key |-> i, ok |-> TRUE])
    /\ UNCHANGED <<pc, opts, args, exit, ran, session, fs, loc, thumbVars>>

\* the process has ended and the tool is started again with -mirror: a new
\* process at the top of main, without a client or a session; the log notes
\* how the run before ended
main_MirrorAgain ==
    /\ pc = "exit"
    /\ Cardinality(Restarts) + 1 < MaxRuns
    /\ calls' = Append(calls, [op |-> "Restart", status |-> exit, ok |-> TRUE])
    /\ exit' = "running"
    /\ session' = FALSE
    /\ loc' = Locals
    /\ pc' = "main"
    /\ UNCHANGED <<opts, args, ran, jira, fs, thumbVars>>

NextRemirror ==
    \/ main_NewClient
    \/ main_Authenticate
    \/ main_Dispatch
    \/ NextMirror
    \/ tracker_EditSummary
    \/ main_MirrorAgain

SpecRemirror == InitRemirror /\ [][NextRemirror]_vars

(***************************************************************************)
(* Claims about repeated mirror runs (checked under SpecRemirror, where    *)
(* the download directory is empty before the first run).                  *)
(***************************************************************************)
\* where in the log the run that is going on started
RunStart == IF Restarts = {} THEN 0 ELSE CHOOSE k \in Restarts : \A j \in Restarts : j <= k

\* positions of the successful file creations
Created == {k \in 1..Len(calls) : calls[k].op = "Create" /\ calls[k].ok}

SameFile(k, j) == calls[k].dir = calls[j].dir /\ calls[k].name = calls[j].name

\* the answer of the last search before position k of the log
SearchBefore(k) ==
    LET S == {j \in 1..(k - 1) : calls[j].op = "Search"}
    IN IF S = {} THEN <<>>
       ELSE calls[CHOOSE j \in S : \A m \in S : m <= j].issues

\* the tracker answers the search of the run started at position r as it
\* answered the search of the run before
SameSearch(r) ==
    \A j \in (r + 1)..Len(calls) :
        (calls[j].op = "Search" /\ \A m \in (r + 1)..(j - 1) : calls[m].op # "Search") =>
            calls[j].ok /\ calls[j].issues = SearchBefore(r)

\* the run that ended before the restart at position r called mirror, and
\* the process ended without an error
MirrorCompleted(r) ==
    /\ calls[r].status = "ok"
    /\ \E j \in 1..(r - 1) :
         /\ calls[j].op = "Search"
         /\ \A m \in j..(r - 1) : calls[m].op # "Restart"

\* a summary was edited between that run and the restart
EditedBefore(r) == r > 1 /\ calls[r - 1].op = "Edit"

\* C24: a file that exists is neither downloaded again nor created again: a
\* download follows only a check that found the file missing, and no file is
\* created twice; and after a run that completed without error, with no
\* summary edited and the search answered as before, the next run performs
\* no download and creates no file.
C24_NeverDownloadsAgain ==
    /\ \A k \in 1..Len(calls) :
         calls[k].op = "Download" =>
            /\ k > 1
            /\ calls[k - 1].op = "Stat"
            /\ calls[k - 1].answer = "not exist"
            /\ ~\E j \in Created : j < k /\ SameFile(j, k - 1)
    /\ \A k \in 1..Len(calls) :
         calls[k].op = "Create" => ~\E j \in Created : j < k /\ SameFile(j, k)
    /\ \A r \in Restarts :
         (MirrorCompleted(r) /\ ~EditedBefore(r) /\ SameSearch(r)) =>
             \A k \in (r + 1)..Len(calls) : calls[k].op \notin {"Download", "Create"}

\* the directories that runs before the one going on created for issue i
CreatedEarlierFor(i) ==
    {calls[k].path : k \in {j \in 2..Len(calls) :
                               /\ j < RunStart
                               /\ calls[j].op = "MkdirAll" /\ calls[j].ok
                               /\ calls[j - 1].op = "Get" /\ calls[j - 1].key = i}}

\* C25: the directory mirror uses for an issue is the one an earlier run
\* created for that issue when there is one, also when the summary has been
\* edited since, and otherwise the name from makeDirectoryName; it is never
\* a directory created for another issue.
C25_DirectoryPerIssue ==
    pc = "mirror_mkdir" =>
        /\ IF CreatedEarlierFor(loc.issue) # {}
           THEN loc.directoryName \in CreatedEarlierFor(loc.issue)
           ELSE loc.directoryName = makeDirectoryName(KeyOf(loc.issue), jira.summary[loc.issue])
        /\ \A j \in MirrorIssues \ {loc.issue} : loc.directoryName \notin CreatedEarlierFor(j)

(***************************************************************************)
(* makeUniqueName applied to any attachment filename and attachment ID.    *)
(***************************************************************************)
MaxName == 5   \* longest attachment filename given to makeUniqueName

NameChars == {"a", "b", ".", "/"}

Names == UNION {[1..n -> NameChars] : n \in 1..MaxName}

\* attachment IDs are numbers written in decimal
AttachmentIds == {5, 12}

InitName ==
    /\ pc = "name_call"
    /\ opts = NoOpts
    /\ args = <<>>
    /\ exit = "running"
    /\ ran = <<>>
    /\ calls = <<>>
    /\ session = FALSE
    /\ jira = NoJira
    /\ fs = NoFs
    /\ \E n \in AttachmentIds : loc = [Locals EXCEPT !.unique = Itoa(n)]
    /\ body \in Names
    /\ newBody = <<>>
    /\ thumbErr = "none"

\* SaveAs: makeUniqueName(a.Filename, a.ID); body holds the filename,
\* newBody the result
CallMakeUniqueName ==
    /\ pc = "name_call"
    /\ newBody' = makeUniqueName(body, loc.unique)
    /\ pc' = "name_done"
    /\ UNCHANGED <<body, thumbErr, progVars>>

NextName == CallMakeUniqueName

SpecName == InitName /\ [][NextName]_vars

(***************************************************************************)
(* Claims about makeUniqueName (checked under SpecName).                   *)
(***************************************************************************)
\* where the final extension of a name starts: its last "." when no "/"
\* follows it, 0 when there is none
ExtensionStart(name) ==
    LET dots == {k \in 1..Len(name) :
                    name[k] = "." /\ \A j \in k..Len(name) : name[j] # "/"}
    IN IF dots = {} THEN 0 ELSE CHOOSE k \in dots : \A j \in dots : j <= k

\* the name with "_" and the id inserted right before its final extension
WithIdBeforeExtension(name, id) ==
    LET d == ExtensionStart(name)
    IN IF d = 0 THEN name \o <<"_">> \o id
       ELSE SubSeq(name, 1, d - 1) \o <<"_">> \o id \o SubSeq(name, d, Len(name))

\* C27: the result is the filename with `_<id>` inserted immediately before
\* its final extension and nothing else changed, and no filename with a
\* different ID gets the same result.
C27_IdBeforeExtension ==
    pc = "name_done" =>
        /\ newBody = WithIdBeforeExtension(body, loc.unique)
        /\ \A n \in AttachmentIds : \A other \in Names :
             Itoa(n) # loc.unique => makeUniqueName(other, Itoa(n)) # newBody

====
